---- MODULE Spec2Model ----
(***************************************************************************)
(* AIBasketStrategy: the allocation registry, the valuation engine, the    *)
(* rebalancer, the liquidator and the swap adapter of the basket strategy, *)
(* as a state machine whose actions are the contract's external functions. *)
(* A transaction is atomic: a failed require (a revert) leaves the whole   *)
(* contract state as it was and discards the events emitted so far.        *)
(* uint256 arithmetic is modelled on the naturals: every quantity of the   *)
(* model stays far below 2^256, so checked overflow never triggers.        *)
(* The Vault that owns the strategy is modelled as far as its withdraw     *)
(* goes: its idle base asset, the shares of one owner and their supply.    *)
(***************************************************************************)
EXTENDS Integers, Sequences, FiniteSets, TLC

VARIABLES
    allocations,    \* TokenAllocation[]: sequence of [token, percentage]
    allowedTokens,  \* mapping(address => bool), as the set of allowed tokens
    priceFeeds,     \* mapping(address => AggregatorV3Interface)
    bal,            \* IERC20(token).balanceOf(address(this)), per token
    allowance,      \* IERC20(token).allowance(address(this), router)
    feedAnswer,     \* latestRoundData().answer of every feed (external)
    pool,           \* the router's state (external): broken route, haircut, slip
    moves,          \* how many balance or market changes there were so far
    last,           \* the outcome of the last transaction
    vault,          \* address public vault
    router,         \* IRouter public router
    status,         \* ReentrancyGuard._status
    frame,          \* the external call in progress, NoFrame when there is none
    vaultAcct       \* the accounts of the Vault contract: its base asset, its shares

vars == <<allocations, allowedTokens, priceFeeds, bal, allowance, feedAnswer,
          pool, moves, last, vault, router, status, frame, vaultAcct>>

----------------------------------------------------------------------------
(* Program constants *)

MAX_BPS == 10000
MAX_SLIPPAGE == 500
MAX_ALLOCATIONS == 10

(* Bounds of the model *)

\* base asset is pushed into the strategy only while the nominal value it
\* holds stays at most MaxHeld base-asset units
MaxHeld == 1000
\* the transactions that change a balance, the vault or the router and the
\* changes of the market (oracle, exchange) are explored up to this many in
\* a behaviour
MaxMoves == 4
\* the oracle answer of the volatile feed ranges over 1..MaxAnswer price steps
MaxAnswer == 2

----------------------------------------------------------------------------
(* Addresses *)

ZERO == "0x0"
ASSET == "asset"
WETH == "weth"
TKB == "tkb"
Tokens == {ASSET, WETH, TKB}
Addresses == Tokens \cup {ZERO}

OWNER == "owner"
VAULT == "vault"
STRANGER == "stranger"
Callers == {OWNER, VAULT, STRANGER}

\* the exchanges a router address can stand for
ROUTER == "router"
ROUTER2 == "router2"

\* ReentrancyGuard._status
NOT_ENTERED == "NOT_ENTERED"
ENTERED == "ENTERED"

NoFrame == [op |-> "none"]

\* the accounts of a Vault that holds nothing and has issued no share:
\* the base asset it holds (idle), the shares of the withdrawing owner,
\* the total supply of shares and the base asset paid to the receiver
NoVaultAcct == [idle |-> 0, shares |-> 0, supply |-> 0, paid |-> 0]

\* ERC20 decimals() of the tokens (external, fixed at token deployment)
tokenDecimals == [t \in Tokens |-> CASE t = ASSET -> 2 [] t = WETH -> 3 [] OTHER -> 1]

\* Price feeds (external aggregators) and their decimals()
NoFeed == "nofeed"
FA == "feedA"
FW == "feedW"
FB == "feedB"
FX == "feedX"
Feeds == {FA, FW, FB, FX}
feedDecimals == [f \in Feeds |-> IF f = FX THEN 18 ELSE 8]

REVERT == 0 - 1

RECURSIVE Pow10(_)
Pow10(n) == IF n = 0 THEN 1 ELSE 10 * Pow10(n - 1)

RECURSIVE SumPct(_)
SumPct(s) == IF s = <<>> THEN 0 ELSE Head(s).percentage + SumPct(Tail(s))

Alloc(t, p) == [token |-> t, percentage |-> p]

\* the holdings at nominal prices (2 per WETH unit, 15 per TKB unit), the
\* measure MaxHeld bounds
NominalHeld(b) == b[ASSET] + 2 * b[WETH] + 15 * b[TKB]

----------------------------------------------------------------------------
(* Valuation engine *)

\* mutant of ValueArith: the price ratio is rounded before it is multiplied
\* by the amount
ValueArithRatioFirst(tokenAmount, uTokenPrice, uAssetPrice, tokenDec, assetDec) ==
    LET exp == assetDec - tokenDec
    IN  IF exp >= 0
        THEN tokenAmount * ((uTokenPrice * Pow10(exp)) \div uAssetPrice)
        ELSE tokenAmount * (uTokenPrice \div (uAssetPrice * Pow10(0 - exp)))

\* the arithmetic of _getTokenValueInAsset once the requires have passed
ValueArith(tokenAmount, uTokenPrice, uAssetPrice, tokenDec, assetDec) ==
    LET exp == assetDec - tokenDec
    IN  IF exp >= 0
        THEN (tokenAmount * uTokenPrice * Pow10(exp)) \div uAssetPrice
        ELSE (tokenAmount * uTokenPrice) \div (uAssetPrice * Pow10(0 - exp))

\* mutant of AmountArith: the division rounds up
AmountArithRoundedUp(assetAmount, uTokenPrice, uAssetPrice, tokenDec, assetDec) ==
    LET exp == tokenDec - assetDec
    IN  IF exp >= 0
        THEN (assetAmount * uAssetPrice * Pow10(exp) + uTokenPrice - 1) \div uTokenPrice
        ELSE (assetAmount * uAssetPrice + uTokenPrice * Pow10(0 - exp) - 1)
                \div (uTokenPrice * Pow10(0 - exp))

\* the arithmetic of _convertAssetValueToTokenAmount once the requires passed
AmountArith(assetAmount, uTokenPrice, uAssetPrice, tokenDec, assetDec) ==
    LET exp == tokenDec - assetDec
    IN  IF exp >= 0
        THEN (assetAmount * uAssetPrice * Pow10(exp)) \div uTokenPrice
        ELSE (assetAmount * uAssetPrice) \div (uTokenPrice * Pow10(0 - exp))

\* mutant of FeedsUsable: the decimals of the feeds are not compared
FeedsUsableAnyDecimals(feeds, answers, token) ==
    /\ feeds[token] # NoFeed
    /\ feeds[ASSET] # NoFeed
    /\ answers[feeds[token]] > 0
    /\ answers[feeds[ASSET]] > 0

\* the requires shared by the two conversions: both feeds set, both prices
\* positive, both feeds of the same decimals
FeedsUsable(feeds, answers, token) ==
    /\ feeds[token] # NoFeed
    /\ feeds[ASSET] # NoFeed
    /\ answers[feeds[token]] > 0
    /\ answers[feeds[ASSET]] > 0
    /\ feedDecimals[feeds[token]] = feedDecimals[feeds[ASSET]]

\* mutant of GetTokenValueInAsset: the base asset is valued through the
\* price feeds like any token
GetTokenValueInAssetByFeeds(feeds, answers, token, tokenAmount) ==
    IF tokenAmount = 0 THEN 0
    ELSE IF ~FeedsUsable(feeds, answers, token) THEN REVERT
    ELSE ValueArith(tokenAmount, answers[feeds[token]], answers[feeds[ASSET]],
                    tokenDecimals[token], tokenDecimals[ASSET])

GetTokenValueInAsset(feeds, answers, token, tokenAmount) ==
    IF token = ASSET THEN tokenAmount
    ELSE IF tokenAmount = 0 THEN 0
    ELSE IF ~FeedsUsable(feeds, answers, token) THEN REVERT
    ELSE ValueArith(tokenAmount, answers[feeds[token]], answers[feeds[ASSET]],
                    tokenDecimals[token], tokenDecimals[ASSET])

ConvertAssetValueToTokenAmount(feeds, answers, token, assetAmount) ==
    IF token = ASSET THEN assetAmount
    ELSE IF assetAmount = 0 THEN 0
    ELSE IF ~FeedsUsable(feeds, answers, token) THEN REVERT
    ELSE AmountArith(assetAmount, answers[feeds[token]], answers[feeds[ASSET]],
                     tokenDecimals[token], tokenDecimals[ASSET])

\* totalAssets(): the base-asset balance plus the value of the balance of
\* every allocation whose token is not the base asset
RECURSIVE TotalAssetsFrom(_, _, _, _, _, _)
TotalAssetsFrom(allocs, b, feeds, answers, i, totalValue) ==
    IF i > Len(allocs) THEN totalValue
    ELSE LET token == allocs[i].token
             v == IF token # ASSET /\ b[token] > 0
                  THEN GetTokenValueInAsset(feeds, answers, token, b[token])
                  ELSE 0
         IN  IF v = REVERT THEN REVERT
             ELSE TotalAssetsFrom(allocs, b, feeds, answers, i + 1, totalValue + v)

TotalAssets(allocs, b, feeds, answers) ==
    TotalAssetsFrom(allocs, b, feeds, answers, 1, b[ASSET])

----------------------------------------------------------------------------
(* The external exchange (IRouter).  Its market prices are the answers of   *)
(* the tokens' own aggregators; `pool` says which token's route is broken   *)
(* (none when pool.bad = ZERO), whether a broken route fails at the quote   *)
(* or at the execution, how far below the market price the pools pay, and   *)
(* how far an execution falls short of the quote.                          *)

MarketFeed == [t \in Tokens |-> CASE t = ASSET -> FA [] t = WETH -> FW [] OTHER -> FB]

PoolStates ==
    {[bad |-> ZERO, how |-> "none", haircut |-> h, slip |-> 0] : h \in {0, 1000}}
    \cup {[bad |-> t, how |-> w, haircut |-> 0, slip |-> 0] : t \in {WETH, TKB}, w \in {"quote", "exec"}}

RouteToken(from, to) == IF from = ASSET THEN to ELSE from

\* getAmountsOut(amount, path): the last element of the amounts, or REVERT
GetAmountsOut(p, answers, from, to, amount) ==
    LET t == RouteToken(from, to)
        pT == answers[MarketFeed[t]]
        pA == answers[MarketFeed[ASSET]]
        fair == IF from = ASSET
                THEN AmountArith(amount, pT, pA, tokenDecimals[t], tokenDecimals[ASSET])
                ELSE ValueArith(amount, pT, pA, tokenDecimals[t], tokenDecimals[ASSET])
    IN  IF (p.bad = t /\ p.how = "quote") \/ pT <= 0 \/ pA <= 0 THEN REVERT
        ELSE (fair * (MAX_BPS - p.haircut)) \div MAX_BPS

\* what an execution pays out of the amount the router quoted: pool.slip is
\* how far, in basis points, the output falls short of the quote
Delivered(p, out) == (out * (MAX_BPS - p.slip)) \div MAX_BPS

\* swapExactTokensForTokens succeeds iff the route works, the router can pull
\* `amount` of the source token and the output reaches amountOutMin
SwapExecutes(p, b, from, to, amount, out, amountOutMin) ==
    /\ ~(p.bad = RouteToken(from, to) /\ p.how = "exec")
    /\ b[from] >= amount
    /\ Delivered(p, out) >= amountOutMin

----------------------------------------------------------------------------
(* Swap execution adapter.  A pass threads st = [b, a, legs, steps]: the    *)
(* balances, the router allowances, the log of the swap legs issued so far *)
(* and the number of iterations of its loop that have completed.           *)

BuildPath(from, to) ==
    IF from = to THEN <<from>>
    ELSE IF from = WETH \/ to = WETH THEN <<from, to>>
    ELSE <<from, WETH, to>>

Leg(from, to, amount, quote, res) ==
    [from |-> from, to |-> to, amount |-> amount, quote |-> quote, res |-> res]

\* mutant of SwapToken: a call with the same token on both sides or with a
\* zero amount is sent to the exchange like any other
SwapTokenNoShortcut(st, p, answers, fromToken, toToken, amount) ==
    LET out == IF fromToken = toToken THEN amount
               ELSE GetAmountsOut(p, answers, fromToken, toToken, amount)
    IN  IF out = REVERT
        THEN [st EXCEPT !.legs = Append(@, Leg(fromToken, toToken, amount, 0, "noquote"))]
        ELSE LET amountOutMin == (out * (MAX_BPS - MAX_SLIPPAGE)) \div MAX_BPS
             IN  IF st.b[fromToken] >= amount /\ Delivered(p, out) >= amountOutMin
                 THEN [st EXCEPT !.b = [[st.b EXCEPT ![fromToken] = @ - amount]
                                           EXCEPT ![toToken] = @ + Delivered(p, out)],
                                 !.a = [st.a EXCEPT ![fromToken] = amount - amount],
                                 !.legs = Append(st.legs,
                                            Leg(fromToken, toToken, amount, out, "executed"))]
                 ELSE [st EXCEPT !.a = [st.a EXCEPT ![fromToken] = 0],
                                 !.legs = Append(st.legs,
                                            Leg(fromToken, toToken, amount, out, "failed"))]

\* mutant of SwapToken: the minimum output is the whole quote
SwapTokenNoTolerance(st, p, answers, fromToken, toToken, amount) ==
    IF fromToken = toToken \/ amount = 0 THEN st
    ELSE LET out == GetAmountsOut(p, answers, fromToken, toToken, amount)
         IN  IF out = REVERT
             THEN [st EXCEPT !.legs = Append(@, Leg(fromToken, toToken, amount, 0, "noquote"))]
             ELSE LET amountOutMin == out
                  IN  IF SwapExecutes(p, st.b, fromToken, toToken, amount, out, amountOutMin)
                      THEN [st EXCEPT !.b = [st.b EXCEPT ![fromToken] = @ - amount,
                                                         ![toToken] = @ + Delivered(p, out)],
                                      !.a = [st.a EXCEPT ![fromToken] = amount - amount],
                                      !.legs = Append(st.legs,
                                                 Leg(fromToken, toToken, amount, out, "executed"))]
                      ELSE [st EXCEPT !.a = [st.a EXCEPT ![fromToken] = 0],
                                      !.legs = Append(st.legs,
                                                 Leg(fromToken, toToken, amount, out, "failed"))]

\* mutant of SwapToken: the approval is not reset when the execution fails
SwapTokenNoReset(st, p, answers, fromToken, toToken, amount) ==
    IF fromToken = toToken \/ amount = 0 THEN st
    ELSE LET out == GetAmountsOut(p, answers, fromToken, toToken, amount)
         IN  IF out = REVERT
             THEN [st EXCEPT !.legs = Append(@, Leg(fromToken, toToken, amount, 0, "noquote"))]
             ELSE LET amountOutMin == (out * (MAX_BPS - MAX_SLIPPAGE)) \div MAX_BPS
                  IN  IF SwapExecutes(p, st.b, fromToken, toToken, amount, out, amountOutMin)
                      THEN [st EXCEPT !.b = [st.b EXCEPT ![fromToken] = @ - amount,
                                                         ![toToken] = @ + Delivered(p, out)],
                                      !.a = [st.a EXCEPT ![fromToken] = amount - amount],
                                      !.legs = Append(st.legs,
                                                 Leg(fromToken, toToken, amount, out, "executed"))]
                      ELSE [st EXCEPT !.a = [st.a EXCEPT ![fromToken] = amount],
                                      !.legs = Append(st.legs,
                                                 Leg(fromToken, toToken, amount, out, "failed"))]

\* mutant of SwapToken: the router is approved before the quote is asked
\* for, and the approval stays when the quote fails
SwapTokenApproveFirst(st, p, answers, fromToken, toToken, amount) ==
    IF fromToken = toToken \/ amount = 0 THEN st
    ELSE LET out == GetAmountsOut(p, answers, fromToken, toToken, amount)
         IN  IF out = REVERT
             THEN [st EXCEPT !.a = [st.a EXCEPT ![fromToken] = amount],
                             !.legs = Append(@, Leg(fromToken, toToken, amount, 0, "noquote"))]
             ELSE LET amountOutMin == (out * (MAX_BPS - MAX_SLIPPAGE)) \div MAX_BPS
                  IN  IF SwapExecutes(p, st.b, fromToken, toToken, amount, out, amountOutMin)
                      THEN [st EXCEPT !.b = [st.b EXCEPT ![fromToken] = @ - amount,
                                                         ![toToken] = @ + Delivered(p, out)],
                                      !.a = [st.a EXCEPT ![fromToken] = amount - amount],
                                      !.legs = Append(st.legs,
                                                 Leg(fromToken, toToken, amount, out, "executed"))]
                      ELSE [st EXCEPT !.a = [st.a EXCEPT ![fromToken] = 0],
                                      !.legs = Append(st.legs,
                                                 Leg(fromToken, toToken, amount, out, "failed"))]

SwapToken(st, p, answers, fromToken, toToken, amount) ==
    IF fromToken = toToken \/ amount = 0 THEN st
    ELSE LET out == GetAmountsOut(p, answers, fromToken, toToken, amount)
         IN  IF out = REVERT
             THEN [st EXCEPT !.legs = Append(@, Leg(fromToken, toToken, amount, 0, "noquote"))]
             ELSE LET amountOutMin == (out * (MAX_BPS - MAX_SLIPPAGE)) \div MAX_BPS
                  IN  IF SwapExecutes(p, st.b, fromToken, toToken, amount, out, amountOutMin)
                      THEN [st EXCEPT !.b = [st.b EXCEPT ![fromToken] = @ - amount,
                                                         ![toToken] = @ + Delivered(p, out)],
                                      !.a = [st.a EXCEPT ![fromToken] = amount - amount],
                                      !.legs = Append(st.legs,
                                                 Leg(fromToken, toToken, amount, out, "executed"))]
                      ELSE [st EXCEPT !.a = [st.a EXCEPT ![fromToken] = 0],
                                      !.legs = Append(st.legs,
                                                 Leg(fromToken, toToken, amount, out, "failed"))]

----------------------------------------------------------------------------
(* Rebalancer.  A pass returns the threaded state, or Reverted.             *)

Reverted == [reverted |-> TRUE]
IsReverted(r) == "reverted" \in DOMAIN r

Threshold(totalValue) == totalValue \div 100

TargetValue(totalValue, percentage) == (totalValue * percentage) \div MAX_BPS

\* mutants of NeedsBuy and NeedsSell: the threshold is ignored
NeedsBuyNoThreshold(currentValue, threshold, targetValue) == currentValue < targetValue

NeedsSellNoThreshold(currentValue, threshold, targetValue) == currentValue > targetValue

NeedsBuy(currentValue, threshold, targetValue) == currentValue + threshold < targetValue

NeedsSell(currentValue, threshold, targetValue) == currentValue > targetValue + threshold

\* mutant of RebalanceStep: a buy is of the whole target value, a sell of
\* the whole balance
RebalanceStepWhole(st, allocs, feeds, answers, p, totalValue, i) ==
    LET token == allocs[i].token
        targetValue == TargetValue(totalValue, allocs[i].percentage)
        currentValue == IF token = ASSET THEN st.b[ASSET]
                        ELSE IF st.b[token] > 0
                             THEN GetTokenValueInAsset(feeds, answers, token, st.b[token])
                             ELSE 0
        threshold == Threshold(totalValue)
    IN  IF currentValue = REVERT THEN Reverted
        ELSE IF NeedsBuy(currentValue, threshold, targetValue)
        THEN SwapToken(st, p, answers, ASSET, token, targetValue)
        ELSE IF NeedsSell(currentValue, threshold, targetValue) /\ token # ASSET
        THEN SwapToken(st, p, answers, token, ASSET, st.b[token])
        ELSE st

RebalanceStep(st, allocs, feeds, answers, p, totalValue, i) ==
    LET token == allocs[i].token
        targetValue == TargetValue(totalValue, allocs[i].percentage)
        currentValue == IF token = ASSET THEN st.b[ASSET]
                        ELSE IF st.b[token] > 0
                             THEN GetTokenValueInAsset(feeds, answers, token, st.b[token])
                             ELSE 0
        threshold == Threshold(totalValue)
    IN  IF currentValue = REVERT THEN Reverted
        ELSE IF NeedsBuy(currentValue, threshold, targetValue)
        THEN SwapToken(st, p, answers, ASSET, token, targetValue - currentValue)
        ELSE IF NeedsSell(currentValue, threshold, targetValue) /\ token # ASSET
        THEN LET amountToSell == currentValue - targetValue
                 converted == ConvertAssetValueToTokenAmount(feeds, answers, token, amountToSell)
                 tokenAmountToSell == IF converted > st.b[token] THEN st.b[token]
                                      ELSE converted
             IN  IF converted = REVERT THEN Reverted
                 ELSE SwapToken(st, p, answers, token, ASSET, tokenAmountToSell)
        ELSE st

\* mutant of RebalanceFrom: the loop stops at the first leg that does not
\* execute
RECURSIVE RebalanceFromAborting(_, _, _, _, _, _, _)
RebalanceFromAborting(st, allocs, feeds, answers, p, totalValue, i) ==
    IF i > Len(allocs) THEN st
    ELSE LET nxt == RebalanceStep(st, allocs, feeds, answers, p, totalValue, i)
         IN  IF IsReverted(nxt) THEN Reverted
             ELSE IF Len(nxt.legs) > Len(st.legs) /\ nxt.legs[Len(nxt.legs)].res # "executed"
             THEN nxt
             ELSE RebalanceFromAborting([nxt EXCEPT !.steps = @ + 1], allocs, feeds, answers,
                                        p, totalValue, i + 1)

RECURSIVE RebalanceFrom(_, _, _, _, _, _, _)
RebalanceFrom(st, allocs, feeds, answers, p, totalValue, i) ==
    IF i > Len(allocs) THEN st
    ELSE LET nxt == RebalanceStep(st, allocs, feeds, answers, p, totalValue, i)
         IN  IF IsReverted(nxt) THEN Reverted
             ELSE RebalanceFrom([nxt EXCEPT !.steps = @ + 1], allocs, feeds, answers, p,
                                totalValue, i + 1)

RebalancePortfolio(st, allocs, feeds, answers, p) ==
    IF Len(allocs) = 0 THEN st
    ELSE LET totalValue == TotalAssets(allocs, st.b, feeds, answers)
         IN  IF totalValue = REVERT THEN Reverted
             ELSE IF totalValue = 0 THEN st
             ELSE RebalanceFrom(st, allocs, feeds, answers, p, totalValue, 1)

----------------------------------------------------------------------------
(* The outcome of a transaction, kept in `last`:                            *)
(*   op, ok, err   the function called, whether it returned, the require    *)
(*                 message when it did not                                  *)
(*   by            msg.sender of a call that returned                       *)
(*   passes        calls of _rebalancePortfolio made by the transaction     *)
(*   steps         iterations completed by the loop over the allocations    *)
(*   legs          the swap legs it issued, in order                        *)
(*   events        the events it emitted, in order                          *)
(*   sent          base asset transferred out to the vault                  *)

Outcome(op, by, ok, err, passes, steps, legs, events, sent) ==
    [op |-> op, by |-> by, ok |-> ok, err |-> err, passes |-> passes, steps |-> steps,
     legs |-> legs, events |-> events, sent |-> sent]

Returned(op, by, passes, steps, legs, events, sent) ==
    Outcome(op, by, TRUE, "", passes, steps, legs, events, sent)

\* a revert: nothing of the transaction persists, its events included
Failed(op, err) == Outcome(op, "", FALSE, err, 0, 0, <<>>, <<>>, 0)

Revert(op, err) ==
    /\ last' = Failed(op, err)
    /\ UNCHANGED <<vaultAcct, allocations, allowedTokens, priceFeeds, bal, allowance, feedAnswer, pool,
                   moves, vault, router, status, frame>>

\* the bound on the explored transactions that change a balance
Moves(b) ==
    /\ b # bal => moves < MaxMoves
    /\ moves' = IF b # bal THEN moves + 1 ELSE moves

\* the same bound on the explored changes of the vault and of the router
Rewired(changed) ==
    /\ changed => moves < MaxMoves
    /\ moves' = IF changed THEN moves + 1 ELSE moves

NotOwner == "OwnableUnauthorizedAccount"
NotVault == "AIBasketStrategy: only vault"
Reentrant == "ReentrancyGuardReentrantCall"

\* mutant of OnlyVault: the modifier lets every caller in
OnlyVaultAnyone(caller, v) == TRUE

\* modifier onlyVault
OnlyVault(caller, v) == caller = v

ZeroAll == [t \in Tokens |-> 0]

Init ==
    /\ allocations = <<>>
    /\ allowedTokens = {ASSET}
    /\ priceFeeds = [t \in Tokens |-> NoFeed]
    /\ bal = ZeroAll
    /\ allowance = ZeroAll
    /\ feedAnswer = [f \in Feeds |-> CASE f = FA -> 2 [] f = FW -> 30 [] OTHER -> 3]
    /\ pool = [bad |-> ZERO, how |-> "none", haircut |-> 0, slip |-> 0]
    /\ moves = 0
    /\ last = Returned("constructor", "", 0, 0, <<>>, <<>>, 0)
    /\ vault = VAULT
    /\ router = ROUTER
    /\ status = NOT_ENTERED
    /\ frame = NoFrame
    /\ vaultAcct = NoVaultAcct

----------------------------------------------------------------------------
(* Allocation registry *)

\* mutants of EntryError: the require on the percentage, or the one on the
\* price feed, left out
EntryErrorAnyWeight(e, allowed, feeds) ==
    IF e.token = ZERO THEN "AIBasketStrategy: zero token"
    ELSE IF e.token \notin allowed THEN "AIBasketStrategy: token not allowed"
    ELSE IF feeds[e.token] = NoFeed THEN "AIBasketStrategy: no price feed"
    ELSE ""

EntryErrorAnyFeed(e, allowed, feeds) ==
    IF e.token = ZERO THEN "AIBasketStrategy: zero token"
    ELSE IF e.token \notin allowed THEN "AIBasketStrategy: token not allowed"
    ELSE IF ~(e.percentage > 0) THEN "AIBasketStrategy: zero percentage"
    ELSE ""

\* the requires of one iteration of the loop of setAllocations, in order
EntryError(e, allowed, feeds) ==
    IF e.token = ZERO THEN "AIBasketStrategy: zero token"
    ELSE IF e.token \notin allowed THEN "AIBasketStrategy: token not allowed"
    ELSE IF ~(e.percentage > 0) THEN "AIBasketStrategy: zero percentage"
    ELSE IF feeds[e.token] = NoFeed THEN "AIBasketStrategy: no price feed"
    ELSE ""

RECURSIVE LoopError(_, _, _)
LoopError(list, allowed, feeds) ==
    IF list = <<>> THEN ""
    ELSE LET err == EntryError(Head(list), allowed, feeds)
         IN  IF err # "" THEN err ELSE LoopError(Tail(list), allowed, feeds)

\* mutant of TotalError: the require on the total left out
TotalErrorUnchecked(list) == ""

TotalError(list) ==
    IF ~(SumPct(list) <= MAX_BPS) THEN "AIBasketStrategy: total percentage exceeds 100%"
    ELSE ""

\* mutant of LengthError: the require on the length left out
LengthErrorUnchecked(list) == ""

LengthError(list) ==
    IF ~(Len(list) <= MAX_ALLOCATIONS) THEN "AIBasketStrategy: too many allocations"
    ELSE ""

\* the first require of setAllocations that fails, "" when none does
SetAllocationsError(list, allowed, feeds) ==
    IF LengthError(list) # "" THEN LengthError(list)
    ELSE IF LoopError(list, allowed, feeds) # "" THEN LoopError(list, allowed, feeds)
    ELSE TotalError(list)

\* mutant of DeleteAllocations: the old entries are kept
DeleteAllocationsKept(old) == old

\* delete allocations; then allocations.push(newAllocations[i]) for every i
DeleteAllocations(old) == <<>>

StoreAllocations(old, list) == DeleteAllocations(old) \o list

RECURSIVE AllocationEvents(_)
AllocationEvents(list) ==
    IF list = <<>> THEN <<>>
    ELSE <<<<"AllocationUpdated", Head(list).token, Head(list).percentage>>>>
         \o AllocationEvents(Tail(list))

\* mutant of TriggersRebalance: the pass runs whatever the balance
TriggersRebalanceAlways(b) == TRUE

\* whether setAllocations calls _rebalancePortfolio
TriggersRebalance(b) == b[ASSET] > 0

SetAllocations(caller, newAllocations) ==
    LET err == SetAllocationsError(newAllocations, allowedTokens, priceFeeds)
        stored == StoreAllocations(allocations, newAllocations)
        st0 == [b |-> bal, a |-> allowance, legs |-> <<>>, steps |-> 0]
        runs == TriggersRebalance(bal)
        st1 == IF runs
               THEN RebalancePortfolio(st0, stored, priceFeeds, feedAnswer, pool)
               ELSE st0
        total == IF IsReverted(st1) THEN REVERT
                 ELSE TotalAssets(stored, st1.b, priceFeeds, feedAnswer)
    IN  IF caller # OWNER THEN Revert("setAllocations", NotOwner)
        ELSE IF err # "" THEN Revert("setAllocations", err)
        ELSE IF IsReverted(st1) \/ total = REVERT
        THEN Revert("setAllocations", "valuation")
        ELSE /\ allocations' = stored
             /\ bal' = st1.b
             /\ Moves(st1.b)
             /\ allowance' = st1.a
             /\ last' = Returned("setAllocations", caller, IF runs THEN 1 ELSE 0, st1.steps, st1.legs,
                                 AllocationEvents(newAllocations)
                                   \o <<<<"AIRebalance", total, Len(stored)>>>>, 0)
             /\ UNCHANGED <<vaultAcct, allowedTokens, priceFeeds, feedAnswer, pool,
                   vault, router, status, frame>>

AllowToken(caller, token) ==
    IF caller # OWNER THEN Revert("allowToken", NotOwner)
    ELSE IF token = ZERO THEN Revert("allowToken", "AIBasketStrategy: zero token")
    ELSE /\ allowedTokens' = allowedTokens \cup {token}
         /\ last' = Returned("allowToken", caller, 0, 0, <<>>, <<<<"TokenAllowed", token>>>>, 0)
         /\ UNCHANGED <<vaultAcct, allocations, priceFeeds, bal, allowance, feedAnswer, pool, moves,
                   vault, router, status, frame>>

\* mutant of DisallowChecked: the base asset is not protected
DisallowUnchecked(token) == TRUE

DisallowChecked(token) == token # ASSET

DisallowToken(caller, token) ==
    IF caller # OWNER THEN Revert("disallowToken", NotOwner)
    ELSE IF ~DisallowChecked(token)
    THEN Revert("disallowToken", "AIBasketStrategy: cannot disallow base asset")
    ELSE /\ allowedTokens' = allowedTokens \ {token}
         /\ last' = Returned("disallowToken", caller, 0, 0, <<>>, <<<<"TokenDisallowed", token>>>>, 0)
         /\ UNCHANGED <<vaultAcct, allocations, priceFeeds, bal, allowance, feedAnswer, pool, moves,
                   vault, router, status, frame>>

SetPriceFeed(caller, token, feed) ==
    IF caller # OWNER THEN Revert("setPriceFeed", NotOwner)
    ELSE IF token = ZERO THEN Revert("setPriceFeed", "AIBasketStrategy: zero token")
    ELSE IF feed = NoFeed THEN Revert("setPriceFeed", "AIBasketStrategy: zero feed")
    ELSE /\ priceFeeds' = [priceFeeds EXCEPT ![token] = feed]
         /\ last' = Returned("setPriceFeed", caller, 0, 0, <<>>, <<<<"PriceFeedSet", token, feed>>>>, 0)
         /\ UNCHANGED <<vaultAcct, allocations, allowedTokens, bal, allowance, feedAnswer, pool, moves,
                   vault, router, status, frame>>

----------------------------------------------------------------------------
(* Liquidity liquidator *)

\* mutant of LiquidateStep: every token is asked for the whole shortfall
LiquidateStepWholeNeed(st, allocs, feeds, answers, p, totalValue, neededAmount, i) ==
    LET token == allocs[i].token
        tokenBalance == st.b[token]
        tokenValue == GetTokenValueInAsset(feeds, answers, token, tokenBalance)
        liquidateValue == neededAmount
        converted == ConvertAssetValueToTokenAmount(feeds, answers, token, liquidateValue)
        liquidateAmount == IF converted > tokenBalance THEN tokenBalance ELSE converted
    IN  IF token = ASSET THEN st
        ELSE IF tokenBalance = 0 THEN st
        ELSE IF tokenValue = REVERT THEN Reverted
        ELSE IF liquidateValue > 0
        THEN IF converted = REVERT THEN Reverted
             ELSE SwapToken(st, p, answers, token, ASSET, liquidateAmount)
        ELSE st

\* mutant of LiquidateStep: the amount to sell is not capped at the balance
LiquidateStepUncapped(st, allocs, feeds, answers, p, totalValue, neededAmount, i) ==
    LET token == allocs[i].token
        tokenBalance == st.b[token]
        tokenValue == GetTokenValueInAsset(feeds, answers, token, tokenBalance)
        liquidateValue == (tokenValue * neededAmount) \div totalValue
        converted == ConvertAssetValueToTokenAmount(feeds, answers, token, liquidateValue)
    IN  IF token = ASSET THEN st
        ELSE IF tokenBalance = 0 THEN st
        ELSE IF tokenValue = REVERT THEN Reverted
        ELSE IF liquidateValue > 0
        THEN IF converted = REVERT THEN Reverted
             ELSE SwapToken(st, p, answers, token, ASSET, converted)
        ELSE st

LiquidateStep(st, allocs, feeds, answers, p, totalValue, neededAmount, i) ==
    LET token == allocs[i].token
        tokenBalance == st.b[token]
        tokenValue == GetTokenValueInAsset(feeds, answers, token, tokenBalance)
        liquidateValue == (tokenValue * neededAmount) \div totalValue
        converted == ConvertAssetValueToTokenAmount(feeds, answers, token, liquidateValue)
        liquidateAmount == IF converted > tokenBalance THEN tokenBalance ELSE converted
    IN  IF token = ASSET THEN st
        ELSE IF tokenBalance = 0 THEN st
        ELSE IF tokenValue = REVERT THEN Reverted
        ELSE IF liquidateValue > 0
        THEN IF converted = REVERT THEN Reverted
             ELSE SwapToken(st, p, answers, token, ASSET, liquidateAmount)
        ELSE st

RECURSIVE LiquidateFrom(_, _, _, _, _, _, _, _)
LiquidateFrom(st, allocs, feeds, answers, p, totalValue, neededAmount, i) ==
    IF i > Len(allocs) THEN st
    ELSE LET nxt == LiquidateStep(st, allocs, feeds, answers, p, totalValue, neededAmount, i)
         IN  IF IsReverted(nxt) THEN Reverted
             ELSE LiquidateFrom([nxt EXCEPT !.steps = @ + 1], allocs, feeds, answers, p,
                                totalValue, neededAmount, i + 1)

\* mutant of LiquidateForWithdrawal: the pass goes over every token held,
\* in the Target Portfolio or not
LiquidateForWithdrawalAnyHolding(st, allocs, feeds, answers, p, neededAmount) ==
    LET held == <<Alloc(WETH, 0), Alloc(TKB, 0)>>
        totalValue == TotalAssets(held, st.b, feeds, answers)
    IN  IF totalValue = REVERT THEN Reverted
        ELSE IF totalValue = 0 THEN st
        ELSE LiquidateFrom(st, held, feeds, answers, p, totalValue, neededAmount, 1)

LiquidateForWithdrawal(st, allocs, feeds, answers, p, neededAmount) ==
    IF Len(allocs) = 0 THEN st
    ELSE LET totalValue == TotalAssets(allocs, st.b, feeds, answers)
         IN  IF totalValue = REVERT THEN Reverted
             ELSE IF totalValue = 0 THEN st
             ELSE LiquidateFrom(st, allocs, feeds, answers, p, totalValue, neededAmount, 1)

----------------------------------------------------------------------------
(* IStrategy implementation *)

\* an ERC20 transfer of base asset into the strategy: the vault's push that
\* precedes invest, or anyone's transfer
Push(amount) ==
    /\ NominalHeld(bal) + amount <= MaxHeld
    /\ bal' = [bal EXCEPT ![ASSET] = @ + amount]
    /\ Moves([bal EXCEPT ![ASSET] = @ + amount])
    /\ last' = Returned("push", "", 0, 0, <<>>, <<>>, 0)
    /\ UNCHANGED <<vaultAcct, allocations, allowedTokens, priceFeeds, allowance, feedAnswer, pool,
                   vault, router, status, frame>>

\* mutant of InvestTriggers: the pass is called whatever the allocations
InvestTriggersAlways(allocs) == TRUE

\* whether invest calls _rebalancePortfolio
InvestTriggers(allocs) == Len(allocs) > 0

Invest(caller, amount) ==
    LET st0 == [b |-> bal, a |-> allowance, legs |-> <<>>, steps |-> 0]
        runs == InvestTriggers(allocations)
        st1 == IF runs
               THEN RebalancePortfolio(st0, allocations, priceFeeds, feedAnswer, pool)
               ELSE st0
    IN  IF ~OnlyVault(caller, vault) THEN Revert("invest", NotVault)
        ELSE IF status = ENTERED THEN Revert("invest", Reentrant)
        ELSE IF ~(amount > 0) THEN Revert("invest", "AIBasketStrategy: zero amount")
        ELSE IF IsReverted(st1) THEN Revert("invest", "valuation")
        ELSE /\ bal' = st1.b
             /\ Moves(st1.b)
             /\ allowance' = st1.a
             /\ last' = Returned("invest", caller, IF runs THEN 1 ELSE 0, st1.steps, st1.legs,
                                 <<<<"Invested", caller, amount>>>>, 0)
             /\ UNCHANGED <<vaultAcct, allocations, allowedTokens, priceFeeds, feedAnswer, pool,
                   vault, router, status, frame>>

\* mutant of Shortfall: the whole amount is asked of the liquidator
ShortfallWhole(amount, assetBalance) == amount

\* the argument of _liquidateForWithdrawal
Shortfall(amount, assetBalance) == amount - assetBalance

\* mutant of ToTransfer: everything on hand is transferred
ToTransferAll(amount, finalBalance) == finalBalance

ToTransfer(amount, finalBalance) == IF amount > finalBalance THEN finalBalance ELSE amount

\* mutant of FreeFunds: the liquidation, and with it the valuation of the
\* portfolio, is entered whatever the base asset on hand
FreeFundsAlwaysLiquidates(caller, amount) ==
    LET st0 == [b |-> bal, a |-> allowance, legs |-> <<>>, steps |-> 0]
        assetBalance == bal[ASSET]
        st1 == LiquidateForWithdrawal(st0, allocations, priceFeeds, feedAnswer, pool,
                                      IF assetBalance < amount
                                      THEN Shortfall(amount, assetBalance) ELSE 0)
        finalBalance == st1.b[ASSET]
        toTransfer == ToTransfer(amount, finalBalance)
    IN  IF ~OnlyVault(caller, vault) THEN Revert("freeFunds", NotVault)
        ELSE IF status = ENTERED THEN Revert("freeFunds", Reentrant)
        ELSE IF ~(amount > 0) THEN Revert("freeFunds", "AIBasketStrategy: zero amount")
        ELSE IF IsReverted(st1) THEN Revert("freeFunds", "valuation")
        ELSE /\ bal' = [st1.b EXCEPT ![ASSET] = @ - toTransfer]
             /\ Moves([st1.b EXCEPT ![ASSET] = @ - toTransfer])
             /\ allowance' = st1.a
             /\ last' = Returned("freeFunds", caller, 0, st1.steps, st1.legs,
                                 <<<<"Freed", caller, toTransfer>>>>, toTransfer)
             /\ UNCHANGED <<vaultAcct, allocations, allowedTokens, priceFeeds, feedAnswer, pool,
                   vault, router, status, frame>>

FreeFunds(caller, amount) ==
    LET st0 == [b |-> bal, a |-> allowance, legs |-> <<>>, steps |-> 0]
        assetBalance == bal[ASSET]
        st1 == IF assetBalance < amount
               THEN LiquidateForWithdrawal(st0, allocations, priceFeeds, feedAnswer, pool,
                                           Shortfall(amount, assetBalance))
               ELSE st0
        finalBalance == st1.b[ASSET]
        toTransfer == ToTransfer(amount, finalBalance)
    IN  IF ~OnlyVault(caller, vault) THEN Revert("freeFunds", NotVault)
        ELSE IF status = ENTERED THEN Revert("freeFunds", Reentrant)
        ELSE IF ~(amount > 0) THEN Revert("freeFunds", "AIBasketStrategy: zero amount")
        ELSE IF IsReverted(st1) THEN Revert("freeFunds", "valuation")
        ELSE /\ bal' = [st1.b EXCEPT ![ASSET] = @ - toTransfer]
             /\ Moves([st1.b EXCEPT ![ASSET] = @ - toTransfer])
             /\ allowance' = st1.a
             /\ last' = Returned("freeFunds", caller, 0, st1.steps, st1.legs,
                                 <<<<"Freed", caller, toTransfer>>>>, toTransfer)
             /\ UNCHANGED <<vaultAcct, allocations, allowedTokens, priceFeeds, feedAnswer, pool,
                   vault, router, status, frame>>

----------------------------------------------------------------------------
(* Admin functions *)

RECURSIVE ExitFrom(_, _, _, _, _)
ExitFrom(st, allocs, answers, p, i) ==
    IF i > Len(allocs) THEN st
    ELSE LET token == allocs[i].token
             balance == st.b[token]
             swapped == SwapToken(st, p, answers, token, ASSET, balance)
         IN  IF token = ASSET \/ balance = 0
             THEN ExitFrom([st EXCEPT !.steps = @ + 1], allocs, answers, p, i + 1)
             ELSE ExitFrom([swapped EXCEPT
                              !.events = Append(@, <<"EmergencyExit", token, balance>>),
                              !.steps = @ + 1],
                           allocs, answers, p, i + 1)

EmergencyExitAllPositions(caller) ==
    LET st1 == ExitFrom([b |-> bal, a |-> allowance, legs |-> <<>>, steps |-> 0,
                         events |-> <<>>],
                        allocations, feedAnswer, pool, 1)
    IN  IF caller # OWNER THEN Revert("emergencyExitAllPositions", NotOwner)
        ELSE IF status = ENTERED THEN Revert("emergencyExitAllPositions", Reentrant)
        ELSE /\ allocations' = <<>>
             /\ bal' = st1.b
             /\ Moves(st1.b)
             /\ allowance' = st1.a
             /\ last' = Returned("emergencyExitAllPositions", caller, 0, st1.steps, st1.legs,
                                 st1.events, 0)
             /\ UNCHANGED <<vaultAcct, allowedTokens, priceFeeds, feedAnswer, pool,
                   vault, router, status, frame>>

EmergencyWithdraw(caller, token) ==
    IF caller # OWNER THEN Revert("emergencyWithdraw", NotOwner)
    ELSE /\ bal' = [bal EXCEPT ![token] = 0]
         /\ Moves([bal EXCEPT ![token] = 0])
         /\ last' = Returned("emergencyWithdraw", caller, 0, 0, <<>>,
                             IF bal[token] > 0
                             THEN <<<<"EmergencyExit", token, bal[token]>>>> ELSE <<>>, 0)
         /\ UNCHANGED <<vaultAcct, allocations, allowedTokens, priceFeeds, allowance, feedAnswer, pool,
                   vault, router, status, frame>>

\* the state of the exchange behind a router address when the strategy is
\* pointed at it: the first one works, the second fails to execute a TKB swap
Exchange == [r \in {ROUTER, ROUTER2} |->
               IF r = ROUTER THEN [bad |-> ZERO, how |-> "none", haircut |-> 0, slip |-> 0]
               ELSE [bad |-> TKB, how |-> "exec", haircut |-> 0, slip |-> 0]]

SetVault(caller, v) ==
    IF caller # OWNER THEN Revert("setVault", NotOwner)
    ELSE IF v = ZERO THEN Revert("setVault", "AIBasketStrategy: vault zero")
    ELSE /\ vault' = v
         /\ Rewired(v # vault)
         /\ last' = Returned("setVault", caller, 0, 0, <<>>, <<<<"VaultChanged", vault, v>>>>, 0)
         /\ UNCHANGED <<vaultAcct, allocations, allowedTokens, priceFeeds, bal, allowance, feedAnswer,
                        pool, router, status, frame>>

SetRouter(caller, r) ==
    IF caller # OWNER THEN Revert("setRouter", NotOwner)
    ELSE IF r = ZERO THEN Revert("setRouter", "AIBasketStrategy: router zero")
    ELSE /\ router' = r
         /\ pool' = Exchange[r]
         /\ Rewired(r # router)
         /\ last' = Returned("setRouter", caller, 0, 0, <<>>,
                             <<<<"RouterChanged", router, r>>>>, 0)
         /\ UNCHANGED <<vaultAcct, allocations, allowedTokens, priceFeeds, bal, allowance, feedAnswer,
                        vault, status, frame>>

----------------------------------------------------------------------------
(* The environment: the oracle reports a new answer, the exchange changes *)

OracleUpdate(answer) ==
    /\ feedAnswer[FW] # answer
    /\ moves < MaxMoves
    /\ moves' = moves + 1
    /\ feedAnswer' = [feedAnswer EXCEPT ![FW] = answer]
    /\ last' = Returned("oracle", "", 0, 0, <<>>, <<>>, 0)
    /\ UNCHANGED <<vaultAcct, allocations, allowedTokens, priceFeeds, bal, allowance, pool,
                   vault, router, status, frame>>

PoolChange(p) ==
    /\ pool # p
    /\ moves < MaxMoves
    /\ moves' = moves + 1
    /\ pool' = p
    /\ last' = Returned("pool", "", 0, 0, <<>>, <<>>, 0)
    /\ UNCHANGED <<vaultAcct, allocations, allowedTokens, priceFeeds, bal, allowance, feedAnswer,
                   vault, router, status, frame>>

----------------------------------------------------------------------------------------------------------------------------------------
(* Inputs *)

RECURSIVE Repeat(_, _)
Repeat(e, n) == IF n = 0 THEN <<>> ELSE <<e>> \o Repeat(e, n - 1)

PushAmounts == {1000}
InvestAmounts == {0, 1000}

(* Spec: every external function but setVault and setRouter, called by     *)
(* every caller with valid and invalid arguments, on a portfolio of the    *)
(* base asset and one other token (WETH is never allowed); the vault, the  *)
(* router, the oracle answers and the exchange stay as they are at         *)
(* construction.                                                           *)

AllocationInputs ==
    { <<>>,
      <<Alloc(TKB, 10000)>>,
      <<Alloc(ASSET, 5000), Alloc(TKB, 5000)>>,
      <<Alloc(TKB, 5000), Alloc(TKB, 6000)>>,
      <<Alloc(TKB, 5000), Alloc(ZERO, 5000)>>,
      <<Alloc(WETH, 5000)>>,
      <<Alloc(TKB, 0)>>,
      Repeat(Alloc(TKB, 1000), MAX_ALLOCATIONS),
      Repeat(Alloc(TKB, 500), MAX_ALLOCATIONS + 1) }

AllowInputs == {ZERO, ASSET, TKB}

FeedInputs == { <<ASSET, FA>>, <<TKB, FB>>, <<TKB, FX>>, <<ZERO, FA>>, <<TKB, NoFeed>> }

FreeAmounts == {0, 1000}

Next ==
    \/ \E c \in Callers, l \in AllocationInputs : SetAllocations(c, l)
    \/ \E c \in Callers, t \in AllowInputs : AllowToken(c, t)
    \/ \E c \in Callers, t \in AllowInputs : DisallowToken(c, t)
    \/ \E c \in Callers, i \in FeedInputs : SetPriceFeed(c, i[1], i[2])
    \/ \E a \in PushAmounts : Push(a)
    \/ \E c \in Callers, a \in InvestAmounts : Invest(c, a)
    \/ \E c \in Callers, a \in FreeAmounts : FreeFunds(c, a)
    \/ \E c \in Callers : EmergencyExitAllPositions(c)
    \/ \E c \in Callers, t \in {ASSET, TKB} : EmergencyWithdraw(c, t)

Spec == Init /\ [][Next]_vars

(* SpecTrade: the owner first allows WETH and TKB and binds the three      *)
(* aggregators (Bootstrap: five owner transactions in a row); afterwards   *)
(* the authorized callers make valid calls while the oracle answer of WETH *)
(* and the exchange change freely.                                         *)

Bootstrap ==
    /\ allowedTokens = {ASSET}
    /\ allowedTokens' = allowedTokens \cup {WETH, TKB}
    /\ priceFeeds' = [priceFeeds EXCEPT ![ASSET] = FA, ![WETH] = FW, ![TKB] = FB]
    /\ last' = Returned("setPriceFeed", OWNER, 0, 0, <<>>, <<<<"PriceFeedSet", TKB, FB>>>>, 0)
    /\ UNCHANGED <<vaultAcct, allocations, bal, allowance, feedAnswer, pool, moves,
                   vault, router, status, frame>>

TradeAllocationInputs ==
    { <<Alloc(TKB, 10000)>>,
      <<Alloc(WETH, 5000), Alloc(TKB, 5000)>>,
      <<Alloc(WETH, 6000), Alloc(TKB, 4000)>>,
      <<Alloc(ASSET, 5000), Alloc(WETH, 3000)>> }

TradeFreeAmounts == {400, 1000}

Answers == {0} \cup {30 * k : k \in 1..MaxAnswer}

NextTrade ==
    \/ Bootstrap
    \/ \E l \in TradeAllocationInputs : allowedTokens # {ASSET} /\ SetAllocations(OWNER, l)
    \/ \E a \in PushAmounts : Push(a)
    \/ \E a \in PushAmounts : Invest(VAULT, a)
    \/ \E a \in TradeFreeAmounts : FreeFunds(VAULT, a)
    \/ EmergencyExitAllPositions(OWNER)
    \/ \E a \in Answers : OracleUpdate(a)
    \/ \E p \in PoolStates : PoolChange(p)

SpecTrade == Init /\ [][NextTrade]_vars

(* SpecAuth: every external function, setVault and setRouter included,     *)
(* called by every caller with arguments that pass its requires, on a      *)
(* portfolio of the base asset and TKB.                                    *)

AuthAllocationInputs == { <<>>, <<Alloc(TKB, 10000)>> }

AuthFeedInputs == { <<ASSET, FA>>, <<TKB, FB>> }

VaultInputs == {ZERO, VAULT, STRANGER}

RouterInputs == {ZERO, ROUTER, ROUTER2}

NextAuth ==
    \/ \E c \in Callers, l \in AuthAllocationInputs : SetAllocations(c, l)
    \/ \E c \in Callers : AllowToken(c, TKB)
    \/ \E c \in Callers : DisallowToken(c, TKB)
    \/ \E c \in Callers, i \in AuthFeedInputs : SetPriceFeed(c, i[1], i[2])
    \/ \E a \in PushAmounts : Push(a)
    \/ \E c \in Callers, a \in PushAmounts : Invest(c, a)
    \/ \E c \in Callers, a \in PushAmounts : FreeFunds(c, a)
    \/ \E c \in Callers : EmergencyExitAllPositions(c)
    \/ \E c \in Callers, t \in {ASSET, TKB} : EmergencyWithdraw(c, t)
    \/ \E c \in Callers, v \in VaultInputs : SetVault(c, v)
    \/ \E c \in Callers, r \in RouterInputs : SetRouter(c, r)

SpecAuth == Init /\ [][NextAuth]_vars

(* SpecReentry: a call that runs a pass is taken apart at its external     *)
(* calls.  An Enter action is the call up to the start of the loop of the  *)
(* pass (modifiers, requires, the Total Value read by the pass), PassStep  *)
(* one iteration of the loop on the contract state of the moment, Exit the *)
(* rest of the function after the loop.  When the leg of an iteration has  *)
(* executed, frame.calling says that the router has not yet returned from  *)
(* swapExactTokensForTokens: until the next PassStep or Exit the router,   *)
(* or a contract it calls, can call the strategy, each such call being one *)
(* of the functions above run as a whole.  getAmountsOut is a view         *)
(* function, called with STATICCALL, in which no state can change.         *)

Snapshot ==
    [allocations |-> allocations, allowedTokens |-> allowedTokens,
     priceFeeds |-> priceFeeds, bal |-> bal, allowance |-> allowance,
     vault |-> vault, router |-> router]

Frame(op, by, arg, totalValue, needed) ==
    [op |-> op, by |-> by, arg |-> arg, totalValue |-> totalValue, needed |-> needed,
     i |-> 1, legs |-> <<>>, calling |-> FALSE, snap |-> Snapshot]

Calling == frame # NoFrame /\ frame.calling

\* the transaction in progress reverts: the state is the one at its start
Unwind(err) ==
    /\ allocations' = frame.snap.allocations
    /\ allowedTokens' = frame.snap.allowedTokens
    /\ priceFeeds' = frame.snap.priceFeeds
    /\ bal' = frame.snap.bal
    /\ allowance' = frame.snap.allowance
    /\ vault' = frame.snap.vault
    /\ router' = frame.snap.router
    /\ status' = NOT_ENTERED
    /\ frame' = NoFrame
    /\ last' = Failed(frame.op, err)
    /\ UNCHANGED <<vaultAcct, feedAnswer, pool, moves>>

\* what the pass reads before its loop; the loop starts when it is positive
PassTotal(allocs) ==
    IF Len(allocs) = 0 THEN 0 ELSE TotalAssets(allocs, bal, priceFeeds, feedAnswer)

EnterInvest(caller, amount) ==
    /\ frame = NoFrame
    /\ OnlyVault(caller, vault) /\ status = NOT_ENTERED /\ amount > 0
    /\ InvestTriggers(allocations)
    /\ PassTotal(allocations) > 0
    /\ moves < MaxMoves /\ moves' = moves + 1
    /\ status' = ENTERED
    /\ frame' = Frame("invest", caller, amount, PassTotal(allocations), 0)
    /\ UNCHANGED <<vaultAcct, allocations, allowedTokens, priceFeeds, bal, allowance, feedAnswer, pool,
                   last, vault, router>>

EnterSetAllocations(caller, newAllocations) ==
    LET stored == StoreAllocations(allocations, newAllocations)
    IN  /\ frame = NoFrame
        /\ caller = OWNER
        /\ SetAllocationsError(newAllocations, allowedTokens, priceFeeds) = ""
        /\ TriggersRebalance(bal)
        /\ PassTotal(stored) > 0
        /\ moves < MaxMoves /\ moves' = moves + 1
        /\ allocations' = stored
        /\ frame' = Frame("setAllocations", caller, newAllocations, PassTotal(stored), 0)
        /\ UNCHANGED <<vaultAcct, allowedTokens, priceFeeds, bal, allowance, feedAnswer, pool, last,
                       vault, router, status>>

EnterFreeFunds(caller, amount) ==
    /\ frame = NoFrame
    /\ OnlyVault(caller, vault) /\ status = NOT_ENTERED /\ amount > 0
    /\ bal[ASSET] < amount
    /\ PassTotal(allocations) > 0
    /\ moves < MaxMoves /\ moves' = moves + 1
    /\ status' = ENTERED
    /\ frame' = Frame("freeFunds", caller, amount, PassTotal(allocations),
                      Shortfall(amount, bal[ASSET]))
    /\ UNCHANGED <<vaultAcct, allocations, allowedTokens, priceFeeds, bal, allowance, feedAnswer, pool,
                   last, vault, router>>

\* mutant of PassStep: the iteration takes the Total Value anew
PassStepFreshTotal ==
    /\ frame # NoFrame
    /\ frame.i <= Len(allocations)
    /\ LET st == [b |-> bal, a |-> allowance, legs |-> frame.legs, steps |-> frame.i - 1]
           fresh == TotalAssets(allocations, bal, priceFeeds, feedAnswer)
           nxt == IF fresh = REVERT THEN Reverted
                  ELSE IF frame.op = "freeFunds"
                  THEN LiquidateStep(st, allocations, priceFeeds, feedAnswer, pool,
                                     fresh, frame.needed, frame.i)
                  ELSE RebalanceStep(st, allocations, priceFeeds, feedAnswer, pool,
                                     fresh, frame.i)
       IN  IF IsReverted(nxt) THEN Unwind("valuation")
           ELSE /\ bal' = nxt.b
                /\ allowance' = nxt.a
                /\ frame' = [frame EXCEPT
                                !.i = @ + 1,
                                !.legs = nxt.legs,
                                !.calling = /\ Len(nxt.legs) > Len(frame.legs)
                                            /\ nxt.legs[Len(nxt.legs)].res = "executed"]
                /\ UNCHANGED <<vaultAcct, allocations, allowedTokens, priceFeeds, feedAnswer, pool,
                               moves, last, vault, router, status>>

PassStep ==
    /\ frame # NoFrame
    /\ frame.i <= Len(allocations)
    /\ LET st == [b |-> bal, a |-> allowance, legs |-> frame.legs, steps |-> frame.i - 1]
           nxt == IF frame.op = "freeFunds"
                  THEN LiquidateStep(st, allocations, priceFeeds, feedAnswer, pool,
                                     frame.totalValue, frame.needed, frame.i)
                  ELSE RebalanceStep(st, allocations, priceFeeds, feedAnswer, pool,
                                     frame.totalValue, frame.i)
       IN  IF IsReverted(nxt) THEN Unwind("valuation")
           ELSE /\ bal' = nxt.b
                /\ allowance' = nxt.a
                /\ frame' = [frame EXCEPT
                                !.i = @ + 1,
                                !.legs = nxt.legs,
                                !.calling = /\ Len(nxt.legs) > Len(frame.legs)
                                            /\ nxt.legs[Len(nxt.legs)].res = "executed"]
                /\ UNCHANGED <<vaultAcct, allocations, allowedTokens, priceFeeds, feedAnswer, pool,
                               moves, last, vault, router, status>>

Exit ==
    /\ frame # NoFrame
    /\ frame.i > Len(allocations)
    /\ LET total == TotalAssets(allocations, bal, priceFeeds, feedAnswer)
           toTransfer == ToTransfer(frame.arg, bal[ASSET])
       IN  IF frame.op = "setAllocations" /\ total = REVERT THEN Unwind("valuation")
           ELSE /\ bal' = IF frame.op = "freeFunds"
                          THEN [bal EXCEPT ![ASSET] = @ - toTransfer] ELSE bal
                /\ last' = CASE frame.op = "invest"
                                  -> Returned("invest", frame.by, 1, frame.i - 1, frame.legs,
                                              <<<<"Invested", frame.by, frame.arg>>>>, 0)
                              [] frame.op = "setAllocations"
                                  -> Returned("setAllocations", frame.by, 1, frame.i - 1,
                                              frame.legs,
                                              AllocationEvents(frame.arg)
                                                \o <<<<"AIRebalance", total,
                                                       Len(allocations)>>>>, 0)
                              [] OTHER
                                  -> Returned("freeFunds", frame.by, 0, frame.i - 1,
                                              frame.legs,
                                              <<<<"Freed", frame.by, toTransfer>>>>,
                                              toTransfer)
                /\ status' = NOT_ENTERED
                /\ frame' = NoFrame
                /\ UNCHANGED <<vaultAcct, allocations, allowedTokens, priceFeeds, allowance, feedAnswer,
                               pool, moves, vault, router>>

\* who can call the strategy while the router has not returned: the vault,
\* whose withdraw and redeem any holder of shares can call and which then
\* calls freeFunds, or any other contract (the router itself); the owner
\* is the account of the backend and has no code to be called through
ReentrantCallers == {VAULT, STRANGER}

ReentryAllocationInputs == { <<Alloc(TKB, 10000)>> }

ReentryFreeAmounts == {400}

NextReentry ==
    \/ frame = NoFrame /\ Bootstrap
    \/ \E a \in PushAmounts : frame = NoFrame /\ Push(a)
    \/ \E l \in TradeAllocationInputs :
          frame = NoFrame /\ allowedTokens # {ASSET} /\ SetAllocations(OWNER, l)
    \/ \E a \in PushAmounts : EnterInvest(VAULT, a)
    \/ \E l \in TradeAllocationInputs : EnterSetAllocations(OWNER, l)
    \/ \E a \in TradeFreeAmounts : EnterFreeFunds(VAULT, a)
    \/ PassStep
    \/ Exit
    \/ \E c \in ReentrantCallers, l \in ReentryAllocationInputs :
          Calling /\ SetAllocations(c, l)
    \/ \E c \in ReentrantCallers, a \in PushAmounts : Calling /\ Invest(c, a)
    \/ \E c \in ReentrantCallers, a \in ReentryFreeAmounts : Calling /\ FreeFunds(c, a)
    \/ \E c \in ReentrantCallers : Calling /\ EmergencyExitAllPositions(c)
    \/ \E c \in ReentrantCallers, t \in Tokens : Calling /\ EmergencyWithdraw(c, t)

SpecReentry == Init /\ [][NextReentry]_vars

(* SpecValue: the two conversions of the valuation engine as functions of  *)
(* their inputs.  The owner has bound the price feeds in one of the ways   *)
(* of ValueFeedInputs, the aggregators report the answers of one of        *)
(* ValueAnswers, and a step applies a conversion to a token and a          *)
(* quantity, keeping the arguments and what it returned in `last`.         *)

\* the token amounts and base-asset values converted range over 0..MaxQuantity
MaxQuantity == 16

Quantities == 0..MaxQuantity

\* priceFeeds after the owner's calls of setPriceFeed: none made; one feed
\* per token; the base asset left without a feed; WETH left without a feed
\* and TKB on a feed of other decimals than the base asset's; the base asset
\* and TKB on the feed of 18 decimals and WETH on one of 8
ValueFeedInputs ==
    { [t \in Tokens |-> NoFeed],
      [t \in Tokens |-> CASE t = ASSET -> FA [] t = WETH -> FW [] OTHER -> FB],
      [t \in Tokens |-> CASE t = ASSET -> NoFeed [] t = WETH -> FW [] OTHER -> FB],
      [t \in Tokens |-> CASE t = ASSET -> FA [] t = WETH -> NoFeed [] OTHER -> FX],
      [t \in Tokens |-> CASE t = ASSET -> FX [] t = WETH -> FW [] OTHER -> FX] }

\* the int256 answers of latestRoundData: positive, zero and negative ones
ValueAnswers ==
    { [f \in Feeds |-> CASE f = FA -> a [] f = FW -> w [] f = FB -> b [] OTHER -> 3] :
        a \in {0, 2}, w \in {0 - 1, 30}, b \in {3, 7} }

\* the record of a conversion: the quantity converted, the token amount in
\* between when two conversions were chained, and the result
Valued(op, token, arg, mid, res) ==
    [op |-> op, ok |-> res # REVERT, err |-> IF res = REVERT THEN "valuation" ELSE "",
     token |-> token, arg |-> arg, mid |-> mid, res |-> res]

InitValue ==
    /\ allocations = <<>>
    /\ allowedTokens = {ASSET}
    /\ priceFeeds \in ValueFeedInputs
    /\ bal = ZeroAll
    /\ allowance = ZeroAll
    /\ feedAnswer \in ValueAnswers
    /\ pool = [bad |-> ZERO, how |-> "none", haircut |-> 0, slip |-> 0]
    /\ moves = 0
    /\ last = Returned("constructor", "", 0, 0, <<>>, <<>>, 0)
    /\ vault = VAULT
    /\ router = ROUTER
    /\ status = NOT_ENTERED
    /\ frame = NoFrame
    /\ vaultAcct = NoVaultAcct

\* _getTokenValueInAsset(token, tokenAmount)
ValueOf(token, tokenAmount) ==
    /\ last' = Valued("valueOf", token, tokenAmount, tokenAmount,
                      GetTokenValueInAsset(priceFeeds, feedAnswer, token, tokenAmount))
    /\ UNCHANGED <<vaultAcct, allocations, allowedTokens, priceFeeds, bal, allowance, feedAnswer, pool,
                   moves, vault, router, status, frame>>

\* _convertAssetValueToTokenAmount(token, assetAmount)
AmountOf(token, assetAmount) ==
    /\ last' = Valued("amountOf", token, assetAmount, assetAmount,
                      ConvertAssetValueToTokenAmount(priceFeeds, feedAnswer, token,
                                                     assetAmount))
    /\ UNCHANGED <<vaultAcct, allocations, allowedTokens, priceFeeds, bal, allowance, feedAnswer, pool,
                   moves, vault, router, status, frame>>

\* a base-asset value converted to a token amount and that amount valued
\* again, as a sell leg does with the value it wants to raise
ValueOfAmountOf(token, assetAmount) ==
    LET mid == ConvertAssetValueToTokenAmount(priceFeeds, feedAnswer, token, assetAmount)
        res == IF mid = REVERT THEN REVERT
               ELSE GetTokenValueInAsset(priceFeeds, feedAnswer, token, mid)
    IN  /\ last' = Valued("valueOfAmountOf", token, assetAmount, mid, res)
        /\ UNCHANGED <<vaultAcct, allocations, allowedTokens, priceFeeds, bal, allowance, feedAnswer,
                       pool, moves, vault, router, status, frame>>

NextValue ==
    \/ \E t \in Tokens, q \in Quantities : ValueOf(t, q)
    \/ \E t \in Tokens, q \in Quantities : AmountOf(t, q)
    \/ \E t \in Tokens, q \in Quantities : ValueOfAmountOf(t, q)

SpecValue == InitValue /\ [][NextValue]_vars

(* SpecSwap: the swap execution adapter as a function of its inputs.  The  *)
(* owner has allowed the tokens and bound their feeds, the strategy holds   *)
(* one of SwapHoldings (tokens reach it by transfer), the exchange is in    *)
(* one of SwapPoolStates, and a step is one call of _swapToken, as a pass   *)
(* makes it, with the tokens and the amount as inputs.                      *)

\* a behaviour makes up to MaxLegs calls of _swapToken
MaxLegs == 1

SwapPoolStates ==
    PoolStates
    \cup {[bad |-> ZERO, how |-> "none", haircut |-> 0, slip |-> x] : x \in {500, 600}}

SwapHoldings ==
    { [t \in Tokens |-> CASE t = ASSET -> 1000 [] t = WETH -> 0 [] OTHER -> 0],
      [t \in Tokens |-> CASE t = ASSET -> 0 [] t = WETH -> 0 [] OTHER -> 66],
      [t \in Tokens |-> CASE t = ASSET -> 10 [] t = WETH -> 400 [] OTHER -> 26] }

SwapAmounts == {0, 26, 400, 1000}

InitSwap ==
    /\ allocations = <<>>
    /\ allowedTokens = Tokens
    /\ priceFeeds = [t \in Tokens |-> CASE t = ASSET -> FA [] t = WETH -> FW [] OTHER -> FB]
    /\ bal \in SwapHoldings
    /\ allowance = ZeroAll
    /\ feedAnswer = [f \in Feeds |-> CASE f = FA -> 2 [] f = FW -> 30 [] OTHER -> 3]
    /\ pool \in SwapPoolStates
    /\ moves = 0
    /\ last = Returned("constructor", "", 0, 0, <<>>, <<>>, 0)
    /\ vault = VAULT
    /\ router = ROUTER
    /\ status = NOT_ENTERED
    /\ frame = NoFrame
    /\ vaultAcct = NoVaultAcct

\* _swapToken(fromToken, toToken, amount)
SwapLeg(fromToken, toToken, amount) ==
    LET st1 == SwapToken([b |-> bal, a |-> allowance, legs |-> <<>>, steps |-> 0],
                         pool, feedAnswer, fromToken, toToken, amount)
    IN  /\ moves < MaxLegs
        /\ moves' = moves + 1
        /\ bal' = st1.b
        /\ allowance' = st1.a
        /\ last' = [op |-> "swap", ok |-> TRUE, err |-> "", from |-> fromToken,
                    to |-> toToken, amount |-> amount, legs |-> st1.legs]
        /\ UNCHANGED <<vaultAcct, allocations, allowedTokens, priceFeeds, feedAnswer, pool,
                       vault, router, status, frame>>

NextSwap == \E f \in Tokens, t \in Tokens, a \in SwapAmounts : SwapLeg(f, t, a)

SpecSwap == InitSwap /\ [][NextSwap]_vars

(* SpecFree: freeFunds called by every caller on portfolios in which the    *)
(* base asset is on hand next to tokens whose price may be unusable: the    *)
(* feed of TKB replaced by one of another precision, no feed set for the    *)
(* base asset (setAllocations asks a feed of the listed tokens only), or an *)
(* answer of the WETH feed that is zero or negative.                        *)

FreeAllocationInputs ==
    { <<Alloc(TKB, 10000)>>,
      <<Alloc(WETH, 5000), Alloc(TKB, 5000)>> }

FreeHoldings ==
    { [t \in Tokens |-> CASE t = ASSET -> 500 [] t = WETH -> 0 [] OTHER -> 33],
      [t \in Tokens |-> CASE t = ASSET -> 700 [] t = WETH -> 200 [] OTHER -> 0],
      [t \in Tokens |-> CASE t = ASSET -> 1000 [] t = WETH -> 100 [] OTHER -> 20],
      [t \in Tokens |-> CASE t = ASSET -> 0 [] t = WETH -> 0 [] OTHER -> 66] }

FreeFeedBindings ==
    { [t \in Tokens |-> CASE t = ASSET -> FA [] t = WETH -> FW [] OTHER -> FB],
      [t \in Tokens |-> CASE t = ASSET -> FA [] t = WETH -> FW [] OTHER -> FX],
      [t \in Tokens |-> CASE t = ASSET -> NoFeed [] t = WETH -> FW [] OTHER -> FB] }

FreeAnswers ==
    { [f \in Feeds |-> CASE f = FA -> 2 [] f = FW -> w [] OTHER -> 3] : w \in {0 - 1, 0, 30} }

FreeInputs == {0, 400, 1000}

InitFree ==
    /\ allocations \in FreeAllocationInputs
    /\ allowedTokens = Tokens
    /\ priceFeeds \in FreeFeedBindings
    /\ bal \in FreeHoldings
    /\ allowance = ZeroAll
    /\ feedAnswer \in FreeAnswers
    /\ pool = [bad |-> ZERO, how |-> "none", haircut |-> 0, slip |-> 0]
    /\ moves = 0
    /\ last = Returned("constructor", "", 0, 0, <<>>, <<>>, 0)
    /\ vault = VAULT
    /\ router = ROUTER
    /\ status = NOT_ENTERED
    /\ frame = NoFrame
    /\ vaultAcct = NoVaultAcct

NextFree == \E c \in Callers, a \in FreeInputs : FreeFunds(c, a)

SpecFree == InitFree /\ [][NextFree]_vars

----------------------------------------------------------------------------
(* The Vault (ERC4626 of OpenZeppelin 5, no decimals offset) in front of    *)
(* the strategy.  One owner of shares withdraws for a receiver; the caller  *)
(* is the owner, so no allowance of shares is spent; the Vault is not       *)
(* paused and its strategy is this one.                                     *)

\* the withdrawals that return are explored up to this many in a behaviour
MaxWithdrawals == 2

InsufficientBalance == "ERC20InsufficientBalance"
ExceededMaxWithdraw == "ERC4626ExceededMaxWithdraw"

CeilDiv(x, y) == (x + y - 1) \div y

\* strategy.freeFunds(amount) called by the Vault: what the strategy holds
\* after the call (b, a), the legs it issued and what it sent to the Vault
StrategyFreeFunds(amount) ==
    LET st0 == [b |-> bal, a |-> allowance, legs |-> <<>>, steps |-> 0]
        assetBalance == bal[ASSET]
        st1 == IF assetBalance < amount
               THEN LiquidateForWithdrawal(st0, allocations, priceFeeds, feedAnswer, pool,
                                           Shortfall(amount, assetBalance))
               ELSE st0
    IN  IF ~OnlyVault(VAULT, vault) THEN [reverted |-> NotVault]
        ELSE IF status = ENTERED THEN [reverted |-> Reentrant]
        ELSE IF ~(amount > 0) THEN [reverted |-> "AIBasketStrategy: zero amount"]
        ELSE IF IsReverted(st1) THEN [reverted |-> "valuation"]
        ELSE LET toTransfer == ToTransfer(amount, st1.b[ASSET])
             IN  [b |-> [st1.b EXCEPT ![ASSET] = @ - toTransfer], a |-> st1.a,
                  legs |-> st1.legs, steps |-> st1.steps, sent |-> toTransfer]

\* Vault.totalAssets() with idle base asset in the Vault, or REVERT
VaultTotalAssets(idle, b) ==
    LET stratBal == TotalAssets(allocations, b, priceFeeds, feedAnswer)
    IN  IF stratBal = REVERT THEN REVERT ELSE idle + stratBal

\* ERC4626.maxWithdraw(owner): the shares of the owner in assets, rounded down
MaxWithdraw(shares, supply, total) == (shares * (total + 1)) \div (supply + 1)

\* ERC4626.previewWithdraw(assets): the shares to burn, rounded up
PreviewWithdraw(assets, supply, total) == CeilDiv(assets * (supply + 1), total + 1)

\* mutant of AssetTransfer: the Vault pays what it has
AssetTransferUpTo(idle, assets) == IF idle < assets THEN idle ELSE assets

\* SafeERC20.safeTransfer(receiver, assets) from the Vault: the amount that
\* moves, or REVERT when the Vault holds less
AssetTransfer(idle, assets) == IF idle < assets THEN REVERT ELSE assets

\* Vault.withdraw(assets, receiver, owner_)
VaultWithdraw(assets) ==
    \E free \in { IF vaultAcct.idle < assets
                  THEN StrategyFreeFunds(assets - vaultAcct.idle)
                  ELSE [b |-> bal, a |-> allowance, legs |-> <<>>, steps |-> 0, sent |-> 0] } :
        IF IsReverted(free) THEN Revert("withdraw", free.reverted)
        ELSE \E total \in { VaultTotalAssets(vaultAcct.idle + free.sent, free.b) } :
             LET idle1 == vaultAcct.idle + free.sent
                 shares == PreviewWithdraw(assets, vaultAcct.supply, total)
                 paid == AssetTransfer(idle1, assets)
             IN  IF total = REVERT THEN Revert("withdraw", "valuation")
                 ELSE IF assets > MaxWithdraw(vaultAcct.shares, vaultAcct.supply, total)
                      THEN Revert("withdraw", ExceededMaxWithdraw)
                 ELSE IF shares > vaultAcct.shares THEN Revert("withdraw", InsufficientBalance)
                 ELSE IF paid = REVERT THEN Revert("withdraw", InsufficientBalance)
                 ELSE /\ moves < MaxWithdrawals
                      /\ moves' = moves + 1
                      /\ bal' = free.b
                      /\ allowance' = free.a
                      /\ vaultAcct' = [idle |-> idle1 - paid,
                                       shares |-> vaultAcct.shares - shares,
                                       supply |-> vaultAcct.supply - shares,
                                       paid |-> vaultAcct.paid + paid]
                      /\ last' = Returned("withdraw", "", 0, free.steps, free.legs,
                                          <<<<"Withdraw", assets, shares>>>>, free.sent)
                      /\ UNCHANGED <<allocations, allowedTokens, priceFeeds, feedAnswer, pool,
                                     vault, router, status, frame>>

(* SpecVault: withdrawals from a Vault whose base asset is partly idle and *)
(* partly in the strategy, which holds it as base asset and as tokens, on   *)
(* exchanges that work, pay 10% below the market or fail to sell TKB, and   *)
(* with WETH prices that can and cannot be used.                            *)

VaultAccounts ==
    { [idle |-> i, shares |-> 1000, supply |-> 1200, paid |-> 0] : i \in {0, 100, 1000} }

VaultPoolStates ==
    { [bad |-> ZERO, how |-> "none", haircut |-> 0, slip |-> 0],
      [bad |-> ZERO, how |-> "none", haircut |-> 1000, slip |-> 0],
      [bad |-> TKB, how |-> "exec", haircut |-> 0, slip |-> 0] }

WithdrawInputs == {0, 100, 390, 400, 1000}

InitVault ==
    /\ allocations \in FreeAllocationInputs
    /\ allowedTokens = Tokens
    /\ priceFeeds = [t \in Tokens |-> CASE t = ASSET -> FA [] t = WETH -> FW [] OTHER -> FB]
    /\ bal \in FreeHoldings
    /\ allowance = ZeroAll
    /\ feedAnswer \in FreeAnswers
    /\ pool \in VaultPoolStates
    /\ moves = 0
    /\ last = Returned("constructor", "", 0, 0, <<>>, <<>>, 0)
    /\ vault = VAULT
    /\ router = ROUTER
    /\ status = NOT_ENTERED
    /\ frame = NoFrame
    /\ vaultAcct \in VaultAccounts

NextVault == \E a \in WithdrawInputs : VaultWithdraw(a)

SpecVault == InitVault /\ [][NextVault]_vars

----------------------------------------------------------------------------
(* Properties *)

\* the step is a call of setAllocations that returned, or one that failed
SetAllocationsReturned == last'.op = "setAllocations" /\ last'.ok
SetAllocationsFailed == last'.op = "setAllocations" /\ ~last'.ok

Overweight(l) == SumPct(l) > MAX_BPS

\* C1: setAllocations with weights that sum to more than 10000 bps is
\* rejected, whoever calls it; the Target Portfolio is then the one before
\* the call and the call has emitted no event.
C1_OverweightRejected ==
    [][/\ (SetAllocationsReturned
            => \A c \in Callers, l \in AllocationInputs :
                  SetAllocations(c, l) => ~Overweight(l))
       /\ (SetAllocationsFailed
            => allocations' = allocations /\ last'.events = <<>>)]_vars

\* a list of weights 5000 and 6000 has just been rejected for its total
\* while a Target Portfolio was in place
C1_Witness ==
    /\ last = Failed("setAllocations", "AIBasketStrategy: total percentage exceeds 100%")
    /\ allocations # <<>>

\* the faults of a list that C2 names, read off the list and the registry
Malformed(l) ==
    \/ Len(l) > MAX_ALLOCATIONS
    \/ \E i \in 1..Len(l) :
          \/ l[i].token = ZERO
          \/ l[i].token \notin allowedTokens
          \/ l[i].percentage = 0
          \/ priceFeeds[l[i].token] = NoFeed

\* C2: setAllocations fails on a list of more than 10 entries or with an
\* entry whose token is zero, not allowed or without price feed, or whose
\* weight is zero; a failed setAllocations changes neither the Target
\* Portfolio, the allowed tokens, the price feeds nor a balance, and leaves
\* no swap behind.
C2_MalformedRejectedNothingMutated ==
    [][/\ (SetAllocationsReturned
            => \A c \in Callers, l \in AllocationInputs :
                  SetAllocations(c, l) => ~Malformed(l))
       /\ (SetAllocationsFailed
            => /\ UNCHANGED <<allocations, allowedTokens, priceFeeds, bal, allowance>>
               /\ last'.legs = <<>>
               /\ last'.passes = 0)]_vars

\* a list of 11 entries has just been rejected while the strategy held base
\* asset that a pass over a Target Portfolio in place would have traded
C2_Witness ==
    /\ last = Failed("setAllocations", "AIBasketStrategy: too many allocations")
    /\ allocations # <<>>
    /\ bal[ASSET] > 0

\* C3: the Target Portfolio has at most 10 entries, every weight is in
\* (0, 10000] and the weights sum to at most 10000.
C3_PortfolioWellFormed ==
    /\ Len(allocations) <= MAX_ALLOCATIONS
    /\ \A i \in 1..Len(allocations) :
          allocations[i].percentage > 0 /\ allocations[i].percentage <= MAX_BPS
    /\ SumPct(allocations) <= MAX_BPS

\* a Target Portfolio of exactly 10 entries that sum to exactly 10000
C3_Witness ==
    /\ Len(allocations) = MAX_ALLOCATIONS
    /\ SumPct(allocations) = MAX_BPS

\* the value of everything held: the base asset plus every other token with
\* a balance, each once; REVERT when a held token cannot be valued
HoldingsValue ==
    LET W == GetTokenValueInAsset(priceFeeds, feedAnswer, WETH, bal[WETH])
        B == GetTokenValueInAsset(priceFeeds, feedAnswer, TKB, bal[TKB])
    IN  IF W = REVERT \/ B = REVERT THEN REVERT ELSE bal[ASSET] + W + B

NoDuplicateTokens(allocs) ==
    \A i, j \in 1..Len(allocs) : allocs[i].token = allocs[j].token => i = j

\* C4: totalAssets() is the base-asset balance plus the value of every other
\* token held, each holding counted once (stated where both can be computed
\* and, to set the double counting of a repeated token aside, for a Target
\* Portfolio without repeated tokens).
C4_TotalAssetsIsAllHoldings ==
    LET total == TotalAssets(allocations, bal, priceFeeds, feedAnswer)
    IN  (total # REVERT /\ HoldingsValue # REVERT /\ NoDuplicateTokens(allocations))
           => total = HoldingsValue

\* C5: a successful setAllocations(list) leaves exactly the entries of list,
\* in order, as the Target Portfolio.
C5_SetAllocationsReplaces ==
    [][SetAllocationsReturned
          => \A c \in Callers, l \in AllocationInputs :
                SetAllocations(c, l) => allocations' = l]_vars

\* setAllocations has just stored the empty list over a Target Portfolio
\* under which TKB had been bought
C5_Witness ==
    /\ last.op = "setAllocations" /\ last.ok
    /\ allocations = <<>>
    /\ bal[TKB] > 0

\* C6: a successful setAllocations runs one rebalance pass iff the strategy
\* holds base asset; with no base asset it issues no swap and moves no
\* balance, whatever else is held.
C6_RebalanceIffBaseHeld ==
    [][SetAllocationsReturned
          => /\ last'.passes = (IF bal[ASSET] > 0 THEN 1 ELSE 0)
             /\ bal[ASSET] = 0 => (last'.legs = <<>> /\ bal' = bal)]_vars

\* setAllocations has just stored a Target Portfolio without running a pass
\* while the strategy held TKB and no base asset
C6_Witness ==
    /\ last.op = "setAllocations" /\ last.ok /\ last.passes = 0
    /\ allocations # <<>>
    /\ bal[ASSET] = 0 /\ bal[TKB] > 0

\* C7: the base asset is always allowed; no disallowToken that returned was
\* for the base asset.
C7_BaseAssetAllowed ==
    /\ ASSET \in allowedTokens
    /\ (last.op = "disallowToken" /\ last.ok) => last.events[1][2] # ASSET

\* disallowToken(base asset) has just been rejected
C7_Witness ==
    last = Failed("disallowToken", "AIBasketStrategy: cannot disallow base asset")

\* C8 as stated: every token of the Target Portfolio has a price feed of the
\* decimals of the base asset's price feed.
C8_FeedsMatchBaseFeed ==
    \A i \in 1..Len(allocations) :
        /\ priceFeeds[allocations[i].token] # NoFeed
        /\ priceFeeds[ASSET] # NoFeed
        /\ feedDecimals[priceFeeds[allocations[i].token]] = feedDecimals[priceFeeds[ASSET]]

\* C8 amended: every token of the Target Portfolio has a price feed (its
\* decimals are compared with the base asset's only when a value is
\* converted).
C8_AllocatedTokensHaveFeed ==
    \A i \in 1..Len(allocations) : priceFeeds[allocations[i].token] # NoFeed

\* TKB is in the Target Portfolio with a price feed of 18 decimals while the
\* base asset's has 8
C8_Witness ==
    /\ \E i \in 1..Len(allocations) : allocations[i].token = TKB
    /\ priceFeeds[TKB] = FX
    /\ priceFeeds[ASSET] = FA

\* the operations that run a rebalance pass
PassOps == {"invest", "setAllocations"}

\* a step that runs a completed pass right after a completed pass over the
\* same Target Portfolio: no push, pull, oracle or exchange change between
SecondPass ==
    /\ last.ok /\ last.passes = 1 /\ last.op \in PassOps
    /\ last'.ok /\ last'.passes = 1 /\ last'.op \in PassOps
    /\ allocations' = allocations

\* the current value of allocation i under balances b (the base asset counts
\* directly, other tokens through the valuation engine)
CurrentValue(allocs, b, i) ==
    GetTokenValueInAsset(priceFeeds, feedAnswer, allocs[i].token, b[allocs[i].token])

Dist(x, y) == IF x >= y THEN x - y ELSE y - x

\* every allocation's current value is within 1% of Total Value of its target
AllWithinThreshold(allocs, b) ==
    LET T == TotalAssets(allocs, b, priceFeeds, feedAnswer)
    IN  /\ T # REVERT
        /\ \A i \in 1..Len(allocs) :
              Dist(CurrentValue(allocs, b, i), (T * allocs[i].percentage) \div 10000)
                 <= T \div 100

\* C9 as stated, in its weakest reading: in a second pass right after a
\* completed pass no swap executes and every balance stays as the first pass
\* left it.
C9_RebalanceIdempotent ==
    [][SecondPass
          => /\ \A k \in 1..Len(last'.legs) : last'.legs[k].res # "executed"
             /\ bal' = bal]_vars

\* C9 amended: so it is when the first pass issued no swap or left every
\* allocation within the threshold of its target.
C9_IdempotentOnceSettled ==
    [][(SecondPass /\ (last.legs = <<>> \/ AllWithinThreshold(allocations, bal)))
          => (last'.legs = <<>> /\ bal' = bal)]_vars

\* a second pass in a row has issued no swap after a first pass that traded
\* and left both tokens within the threshold but off their targets
C9_Witness ==
    /\ last.ok /\ last.passes = 1 /\ last.legs = <<>>
    /\ Len(allocations) = 2
    /\ bal[WETH] > 0 /\ bal[TKB] > 0 /\ bal[ASSET] = 0
    /\ AllWithinThreshold(allocations, bal)
    /\ moves = 2

\* C10: a pass over a Target Portfolio whose allocations are all within the
\* threshold of their targets issues no swap and changes no balance (so the
\* same holds of the pass after it).
C10_WithinThresholdNoSwap ==
    [][(last'.ok /\ last'.passes = 1 /\ AllWithinThreshold(allocations', bal))
          => (last'.legs = <<>> /\ bal' = bal /\ AllWithinThreshold(allocations', bal'))]_vars

\* a pass has issued no swap over two tokens held within the threshold of
\* their targets, one of them off its target
C10_Witness ==
    /\ last.ok /\ last.passes = 1 /\ last.legs = <<>>
    /\ bal[WETH] > 0 /\ bal[TKB] > 0
    /\ AllWithinThreshold(allocations, bal)
    /\ \E i \in 1..Len(allocations) :
          CurrentValue(allocations, bal, i)
             # (TotalAssets(allocations, bal, priceFeeds, feedAnswer)
                  * allocations[i].percentage) \div 10000

\* the operations that loop over the allocations and swap
LoopOps == {"invest", "setAllocations", "freeFunds", "emergencyExitAllPositions"}

SomeLegFailed(legs) == \E k \in 1..Len(legs) : legs[k].res # "executed"

\* what the executed legs of a log add to the balance of token t
RECURSIVE LegsNet(_, _)
LegsNet(legs, t) ==
    IF legs = <<>> THEN 0
    ELSE LET l == Head(legs)
         IN  (IF l.res = "executed" /\ l.to = t THEN l.quote ELSE 0)
             - (IF l.res = "executed" /\ l.from = t THEN l.amount ELSE 0)
             + LegsNet(Tail(legs), t)

\* C11: an operation in which a swap leg failed (no quote, or the execution
\* failed) returns all the same, its loop has visited every allocation, and
\* every balance is the one before the call plus what the executed legs
\* moved (less what freeFunds sent out); whatever the exchange does, an
\* authorized call with valid arguments fails only for a price that cannot
\* be used.
C11_FailedLegSkipped ==
    [][/\ (last'.op \in LoopOps /\ last'.ok /\ SomeLegFailed(last'.legs))
            => /\ last'.steps = Len(IF last'.op = "emergencyExitAllPositions"
                                    THEN allocations ELSE allocations')
               /\ \A t \in Tokens :
                     bal'[t] = bal[t] + LegsNet(last'.legs, t)
                                 - (IF t = ASSET THEN last'.sent ELSE 0)
       /\ (last'.op \in LoopOps /\ ~last'.ok)
            => (last'.err = "valuation" /\ feedAnswer[FW] <= 0)]_vars

\* a pass has just returned whose first leg failed and whose second leg, for
\* the allocation after it, executed
C11_Witness ==
    /\ last.ok /\ last.passes = 1 /\ Len(last.legs) = 2
    /\ last.legs[1].res # "executed"
    /\ last.legs[2].res = "executed"
    /\ bal[last.legs[2].to] > 0

BadPrice(t) ==
    IF priceFeeds[t] = NoFeed \/ priceFeeds[ASSET] = NoFeed THEN TRUE
    ELSE \/ feedAnswer[priceFeeds[t]] <= 0
         \/ feedAnswer[priceFeeds[ASSET]] <= 0
         \/ feedDecimals[priceFeeds[t]] # feedDecimals[priceFeeds[ASSET]]

\* under balances b some token of allocs other than the base asset is held
\* and cannot be valued
HasUnvaluable(allocs, b) ==
    \E i \in 1..Len(allocs) :
        allocs[i].token # ASSET /\ b[allocs[i].token] > 0 /\ BadPrice(allocs[i].token)

FreeFundsReturned == last'.op = "freeFunds" /\ last'.ok

Min(x, y) == IF x <= y THEN x ELSE y

\* C13: a freeFunds(amount) that returns has sent the vault the smaller of
\* amount and the base asset held after the liquidation step (the base
\* asset held before plus what the executed legs brought in); with the
\* amount on hand no liquidation ran (no leg, no loop, no other balance
\* moved), and otherwise the legs are those of a liquidation for the
\* shortfall amount - (base asset on hand).
C13_FreeFundsSendsMin ==
    [][FreeFundsReturned
          => \A a \in TradeFreeAmounts :
                FreeFunds(vault, a)
                   => LET after == bal[ASSET] + LegsNet(last'.legs, ASSET)
                          liq == LiquidateForWithdrawal(
                                     [b |-> bal, a |-> allowance, legs |-> <<>>, steps |-> 0],
                                     allocations, priceFeeds, feedAnswer, pool,
                                     a - bal[ASSET])
                      IN  /\ last'.sent = Min(a, after)
                          /\ bal'[ASSET] = after - last'.sent
                          /\ bal[ASSET] >= a
                               => /\ last'.legs = <<>> /\ last'.steps = 0
                                  /\ \A t \in Tokens \ {ASSET} : bal'[t] = bal[t]
                          /\ bal[ASSET] < a => last'.legs = liq.legs]_vars

\* freeFunds has just sent all the base asset it had after a liquidation
\* that ran for a shortfall smaller than the amount: some was on hand, some
\* came from the legs
C13_Witness ==
    /\ last.op = "freeFunds" /\ last.ok
    /\ LegsNet(last.legs, ASSET) > 0
    /\ last.sent > LegsNet(last.legs, ASSET)
    /\ bal[ASSET] = 0

\* what the integer divisions of the legs can lose: per leg, the value of
\* one unit of the token sold and one base-asset unit for each of the two
\* divisions before it
RECURSIVE RoundingSlack(_)
RoundingSlack(legs) ==
    IF legs = <<>> THEN 0
    ELSE GetTokenValueInAsset(priceFeeds, feedAnswer, Head(legs).from, 1) + 2
         + RoundingSlack(Tail(legs))

\* C14, in its weakest reading: a freeFunds(amount) that returns, for an
\* amount of at most Total Value and with every liquidation leg executed at
\* the oracle price (the exchange pays the market price, no leg failed), has
\* sent the vault the full amount, up to what the integer divisions of its
\* legs can lose.
C14_FullAmountWhenLegsExecute ==
    [][FreeFundsReturned
          => \A a \in TradeFreeAmounts :
                FreeFunds(vault, a)
                   => LET T == TotalAssets(allocations, bal, priceFeeds, feedAnswer)
                      IN  (/\ T # REVERT /\ a <= T
                           /\ pool.haircut = 0
                           /\ ~SomeLegFailed(last'.legs))
                             => last'.sent + RoundingSlack(last'.legs) >= a]_vars

\* C15: when the base asset is the only token held, freeFunds(n) by the
\* vault with 0 < n <= base asset held returns, sends exactly n, issues no
\* swap and takes n off the base-asset balance, nothing else.
C15_BaseOnlyExact ==
    [][(last'.op = "freeFunds" /\ bal[WETH] = 0 /\ bal[TKB] = 0)
          => \A n \in TradeFreeAmounts :
                (FreeFunds(vault, n) /\ 0 < n /\ n <= bal[ASSET])
                   => /\ last'.ok
                      /\ last'.sent = n
                      /\ last'.legs = <<>>
                      /\ bal' = [bal EXCEPT ![ASSET] = @ - n]
                      /\ allowance' = allowance]_vars

\* freeFunds has just sent part of the base asset, the only token held,
\* without a swap although a Target Portfolio is in place
C15_Witness ==
    /\ last.op = "freeFunds" /\ last.ok /\ last.legs = <<>>
    /\ last.sent > 0
    /\ bal[ASSET] > 0 /\ bal[WETH] = 0 /\ bal[TKB] = 0
    /\ allocations # <<>>

\* C16: an invest that returns was called with amount > 0 and has run one
\* rebalance pass if the Target Portfolio is not empty, none if it is empty,
\* and then it has issued no swap and changed no balance; invest(0) fails;
\* an invest that fails changes nothing and leaves no event.
C16_InvestRunsOnePass ==
    [][last'.op = "invest"
          => /\ last'.ok
                  => /\ last'.passes = (IF allocations # <<>> THEN 1 ELSE 0)
                     /\ allocations = <<>>
                          => (last'.legs = <<>> /\ bal' = bal /\ allowance' = allowance)
                     /\ \A c \in Callers, a \in InvestAmounts : Invest(c, a) => a > 0
                     /\ allocations' = allocations
             /\ ~last'.ok
                  => /\ UNCHANGED <<allocations, allowedTokens, priceFeeds, bal, allowance,
                                    vault, router>>
                     /\ last'.events = <<>> /\ last'.legs = <<>>]_vars

\* invest has just returned after one pass that bought TKB with the base
\* asset the vault had pushed
C16_Witness ==
    /\ last.op = "invest" /\ last.ok /\ last.passes = 1
    /\ \E k \in 1..Len(last.legs) : last.legs[k].res = "executed"
    /\ bal[TKB] > 0

\* C17: after an emergencyExitAllPositions that returned the Target
\* Portfolio is empty and the strategy holds nothing of any token, other
\* than the base asset, that was in the Target Portfolio.
C17_ExitLeavesNoPosition ==
    [][(last'.op = "emergencyExitAllPositions" /\ last'.ok)
          => /\ allocations' = <<>>
             /\ \A i \in 1..Len(allocations) :
                   allocations[i].token # ASSET => bal'[allocations[i].token] = 0]_vars

VaultOps == {"invest", "freeFunds"}

OwnerOps == {"setAllocations", "allowToken", "disallowToken", "setPriceFeed", "setVault",
             "setRouter", "emergencyExitAllPositions", "emergencyWithdraw"}

\* C18: invest and freeFunds return only for the vault of the moment, the
\* eight owner functions only for the owner; a call of invest or freeFunds
\* by anyone else fails with the vault's error, a call of setVault or
\* setRouter by anyone else with the owner's; and a call refused for its
\* caller changes nothing and leaves no event.
C18_OnlyAuthorizedCallers ==
    [][/\ (last'.op \in VaultOps /\ last'.ok) => last'.by = vault
       /\ (last'.op \in OwnerOps /\ last'.ok) => last'.by = OWNER
       /\ last'.op = "invest"
            => \A c \in Callers \ {vault}, a \in PushAmounts :
                  Invest(c, a) => last' = Failed("invest", NotVault)
       /\ last'.op = "freeFunds"
            => \A c \in Callers \ {vault}, a \in PushAmounts :
                  FreeFunds(c, a) => last' = Failed("freeFunds", NotVault)
       /\ last'.op = "setVault"
            => \A c \in Callers \ {OWNER}, v \in VaultInputs :
                  SetVault(c, v) => last' = Failed("setVault", NotOwner)
       /\ last'.op = "setRouter"
            => \A c \in Callers \ {OWNER}, r \in RouterInputs :
                  SetRouter(c, r) => last' = Failed("setRouter", NotOwner)
       /\ last'.err \in {NotOwner, NotVault}
            => /\ UNCHANGED <<allocations, allowedTokens, priceFeeds, bal, allowance,
                              vault, router, pool>>
               /\ last'.events = <<>> /\ last'.legs = <<>> /\ last'.sent = 0]_vars

\* freeFunds has just been refused for its caller while the strategy held
\* base asset and the owner had made another address the vault
C18_Witness ==
    /\ last = Failed("freeFunds", NotVault)
    /\ vault = STRANGER
    /\ bal[ASSET] > 0

\* the events of the contract that carry a token and an amount sold
TradeEventNames == {"EmergencyExit"}

\* C19: in an operation that returned, every swap leg that executed is
\* recorded by an emitted event with its token and amount, and every trade
\* or exit event emitted is for a leg that executed.
C19_TradeEventIffExecuted ==
    [][(last'.op \in LoopOps /\ last'.ok)
          => /\ \A k \in 1..Len(last'.legs) :
                   last'.legs[k].res = "executed"
                      => \E j \in 1..Len(last'.events) :
                            /\ last'.events[j][1] \in TradeEventNames
                            /\ last'.events[j][2] = last'.legs[k].from
                            /\ last'.events[j][3] = last'.legs[k].amount
             /\ \A j \in 1..Len(last'.events) :
                   last'.events[j][1] \in TradeEventNames
                      => \E k \in 1..Len(last'.legs) :
                            /\ last'.legs[k].res = "executed"
                            /\ last'.legs[k].from = last'.events[j][2]
                            /\ last'.legs[k].amount = last'.events[j][3]]_vars

\* the step is a call that the strategy receives while a pass is in
\* progress: the call in progress stays where it is
ReentrantCall == frame # NoFrame /\ frame' = frame /\ last' # last

\* C20: a call of setAllocations, invest, freeFunds,
\* emergencyExitAllPositions or emergencyWithdraw that the strategy receives
\* while a rebalance or liquidation pass is in progress fails, and changes
\* neither the Target Portfolio nor a balance.
C20_NoReentryDuringPass ==
    [][ReentrantCall
          => /\ ~last'.ok
             /\ UNCHANGED <<allocations, bal>>]_vars

\* the state is the one after a single conversion
Converted == last.op \in {"valueOf", "amountOf"}

\* C21 as stated: for a token other than the base asset and every quantity,
\* a conversion fails when a price source is missing, a price is not
\* positive or the precisions of the two price sources differ.
C21_BadPriceFailsEveryAmount ==
    (Converted /\ last.token # ASSET /\ BadPrice(last.token)) => ~last.ok

\* C21 amended: for a token other than the base asset, a conversion of a
\* quantity greater than zero fails, with an oracle error, when a price
\* source is missing, a price is not positive or the precisions of the two
\* price sources differ; the conversion of zero returns zero whatever the
\* price sources.
C21_BadPriceFailsPositiveAmount ==
    (Converted /\ last.token # ASSET)
       => /\ (last.arg > 0 /\ BadPrice(last.token))
               => (~last.ok /\ last.err = "valuation")
          /\ last.arg = 0 => (last.ok /\ last.res = 0)

\* amountOf has just failed for a positive value of TKB, whose price source
\* is of another precision than the base asset's, both prices positive
C21_Witness ==
    /\ last.op = "amountOf" /\ last.token = TKB /\ last.arg > 0 /\ ~last.ok
    /\ priceFeeds[TKB] = FX /\ priceFeeds[ASSET] = FA
    /\ feedAnswer[FX] > 0 /\ feedAnswer[FA] > 0

\* the state is the one after a value was converted to an amount of the
\* token and the amount valued again
RoundTripped == last.op = "valueOfAmountOf"

\* C22, in its weakest reading (the value 0, which is converted without a
\* look at the price sources, left aside): with price sources of the same
\* precision and positive prices, valueOf(token, amountOf(token, v)) differs
\* from v by at most one unit; with price sources of different precisions
\* the conversion fails.
C22_RoundTripWithinOneUnit ==
    (RoundTripped /\ last.arg > 0)
       => /\ ~BadPrice(last.token)
               => (last.ok /\ last.res - last.arg \in {0 - 1, 0, 1})
          /\ (/\ priceFeeds[last.token] # NoFeed /\ priceFeeds[ASSET] # NoFeed
              /\ feedDecimals[priceFeeds[last.token]] # feedDecimals[priceFeeds[ASSET]])
               => ~last.ok

\* C22 amended: for a token other than the base asset, with price sources
\* of the same precision and positive prices, valueOf(token, amountOf(token,
\* v)) never exceeds v and falls short of it by less than the value of one
\* smallest unit of the token plus one base unit ((v - r - 1) * pA *
\* 10^max(dT - dA, 0) < pT * 10^max(dA - dT, 0)); for the base asset it is
\* v; with price sources of different precisions the conversion of a value
\* v > 0 fails, and that of 0 returns 0.
C22_RoundTripWithinOneTokenUnit ==
    RoundTripped
       => LET t == last.token
              dT == tokenDecimals[t]
              dA == tokenDecimals[ASSET]
          IN  /\ t = ASSET => (last.ok /\ last.res = last.arg)
              /\ (t # ASSET /\ ~BadPrice(t))
                   => /\ last.ok
                      /\ last.res <= last.arg
                      /\ (last.arg - last.res - 1) * feedAnswer[priceFeeds[ASSET]]
                             * Pow10(IF dT > dA THEN dT - dA ELSE 0)
                           < feedAnswer[priceFeeds[t]] * Pow10(IF dA > dT THEN dA - dT ELSE 0)
              /\ (t # ASSET /\ BadPrice(t))
                   => IF last.arg > 0 THEN ~last.ok ELSE last.ok /\ last.res = 0

\* a value has just been converted to TKB and back with usable prices and
\* came back more than one base unit short
C22_Witness ==
    /\ RoundTripped /\ last.token = TKB /\ ~BadPrice(TKB)
    /\ last.ok /\ last.arg - last.res > 1

\* C23: valueOf(baseAsset, x) = x and amountOf(baseAsset, x) = x for every
\* x, whatever the price sources: they return also when the base asset has
\* no price source or a price that is not positive.
C23_BaseAssetIdentity ==
    (Converted /\ last.token = ASSET) => (last.ok /\ last.res = last.arg)

\* valueOf has just returned x > 0 for x of the base asset while the base
\* asset had no price source
C23_Witness ==
    /\ last.op = "valueOf" /\ last.token = ASSET /\ last.arg > 0
    /\ last.ok /\ last.res = last.arg
    /\ priceFeeds[ASSET] = NoFeed

\* r is the quotient num / den rounded down
IsFloor(r, num, den) == r * den <= num /\ num < (r + 1) * den

\* C29: with usable prices pT and pA and token decimals dT and dA, valueOf
\* of an amount a > 0 of a token other than the base asset is
\* a * pT * 10^(dA - dT) / pA rounded down when dA >= dT and
\* a * pT / (pA * 10^(dT - dA)) rounded down otherwise; amountOf of a value
\* v > 0 is v * pA * 10^(dT - dA) / pT rounded down when dT >= dA and
\* v * pA / (pT * 10^(dA - dT)) rounded down otherwise: one rounding, of the
\* exact quotient.
C29_ConversionIsFloorOfExactQuotient ==
    (Converted /\ last.token # ASSET /\ last.arg > 0 /\ ~BadPrice(last.token))
       => LET pT == feedAnswer[priceFeeds[last.token]]
              pA == feedAnswer[priceFeeds[ASSET]]
              dT == tokenDecimals[last.token]
              dA == tokenDecimals[ASSET]
          IN  /\ last.ok
              /\ (last.op = "valueOf" /\ dA >= dT)
                   => IsFloor(last.res, last.arg * pT * Pow10(dA - dT), pA)
              /\ (last.op = "valueOf" /\ dA < dT)
                   => IsFloor(last.res, last.arg * pT, pA * Pow10(dT - dA))
              /\ (last.op = "amountOf" /\ dT >= dA)
                   => IsFloor(last.res, last.arg * pA * Pow10(dT - dA), pT)
              /\ (last.op = "amountOf" /\ dT < dA)
                   => IsFloor(last.res, last.arg * pA, pT * Pow10(dA - dT))

\* valueOf has just returned for an amount of WETH, of more decimals than
\* the base asset, whose exact value is not a whole number of base units
C29_Witness ==
    /\ last.op = "valueOf" /\ last.token = WETH /\ last.ok /\ last.res > 0
    /\ tokenDecimals[WETH] > tokenDecimals[ASSET]
    /\ last.res * feedAnswer[priceFeeds[ASSET]]
          * Pow10(tokenDecimals[WETH] - tokenDecimals[ASSET])
         < last.arg * feedAnswer[priceFeeds[WETH]]

RebalanceOps == {"invest", "setAllocations"}

\* the step is an iteration of the loop of a rebalance pass (of a
\* liquidation) that completed
RebalanceIteration ==
    /\ frame # NoFrame /\ frame.op \in RebalanceOps
    /\ frame' # NoFrame /\ frame'.i = frame.i + 1

LiquidateIteration ==
    /\ frame # NoFrame /\ frame.op = "freeFunds"
    /\ frame' # NoFrame /\ frame'.i = frame.i + 1

\* the legs the iteration issued
NewLegs == SubSeq(frame'.legs, Len(frame.legs) + 1, Len(frame'.legs))

\* the token of the iteration, its value held when the iteration starts and
\* its target value and the threshold from the Total Value of the pass
IterToken == allocations[frame.i].token
IterCurrent == GetTokenValueInAsset(priceFeeds, feedAnswer, IterToken, bal[IterToken])
IterTarget == (frame.totalValue * allocations[frame.i].percentage) \div 10000
IterThreshold == frame.totalValue \div 100

IsBuy(l, token, amount) == l.from = ASSET /\ l.to = token /\ l.amount = amount

IsSell(l, token) == l.from = token /\ l.to = ASSET

\* C24 as stated, the worth of a sell taken up to the rounding of the
\* conversion to whole token units: in an iteration of a rebalance pass the
\* legs issued are one buy of targetValue - currentValue base-asset units
\* into the token if currentValue + threshold < targetValue, one sell of
\* the token worth currentValue - targetValue if currentValue > targetValue
\* + threshold, and none otherwise.
C24_BuySellIffBeyondThreshold ==
    [][RebalanceIteration
          => IF IterCurrent + IterThreshold < IterTarget
             THEN Len(NewLegs) = 1 /\ IsBuy(NewLegs[1], IterToken, IterTarget - IterCurrent)
             ELSE IF IterCurrent > IterTarget + IterThreshold
             THEN /\ Len(NewLegs) = 1 /\ IsSell(NewLegs[1], IterToken)
                  /\ LET worth == GetTokenValueInAsset(priceFeeds, feedAnswer, IterToken,
                                                       NewLegs[1].amount)
                         unit == GetTokenValueInAsset(priceFeeds, feedAnswer, IterToken, 1)
                     IN  /\ worth <= IterCurrent - IterTarget
                         /\ worth + unit + 1 > IterCurrent - IterTarget
             ELSE NewLegs = <<>>]_vars

\* the token amount the sell branch passes to the swap
SellAmount(token, value) ==
    Min(ConvertAssetValueToTokenAmount(priceFeeds, feedAnswer, token, value), bal[token])

\* C24 amended: for an allocation of a token other than the base asset, one
\* buy of exactly targetValue - currentValue base-asset units is issued iff
\* currentValue + threshold < targetValue; one sell of min(amountOf(token,
\* currentValue - targetValue), Holding) token units is issued iff
\* currentValue > targetValue + threshold and that amount is not zero; no
\* swap is issued otherwise, and none ever for an allocation of the base
\* asset.
C24_BuySellIffBeyondThresholdNonBase ==
    [][RebalanceIteration
          => IF IterToken = ASSET THEN NewLegs = <<>>
             ELSE IF IterCurrent + IterThreshold < IterTarget
             THEN Len(NewLegs) = 1 /\ IsBuy(NewLegs[1], IterToken, IterTarget - IterCurrent)
             ELSE IF /\ IterCurrent > IterTarget + IterThreshold
                     /\ SellAmount(IterToken, IterCurrent - IterTarget) > 0
             THEN /\ Len(NewLegs) = 1 /\ IsSell(NewLegs[1], IterToken)
                  /\ NewLegs[1].amount = SellAmount(IterToken, IterCurrent - IterTarget)
             ELSE NewLegs = <<>>]_vars

\* a rebalance pass is in progress that has issued a buy for its first
\* token, underweight, and sold some, not all, of its second, overweight
C24_Witness ==
    /\ frame # NoFrame /\ frame.op \in RebalanceOps
    /\ Len(frame.legs) = 2
    /\ frame.legs[1].from = ASSET /\ frame.legs[1].amount > 0
    /\ frame.legs[2].to = ASSET /\ frame.legs[2].res = "executed"
    /\ bal[frame.legs[2].from] > 0

\* the step starts a rebalance pass; the step is the return of the call
\* that ran one
RebalanceStart == frame = NoFrame /\ frame' # NoFrame /\ frame'.op \in RebalanceOps

RebalanceEnd ==
    /\ frame # NoFrame /\ frame.op \in RebalanceOps
    /\ frame' = NoFrame /\ last'.ok

\* C25: a rebalance pass takes the Total Value once, when it starts, and
\* begins at the first allocation; each iteration is for the next
\* allocation in the order of the registry, which it leaves as it is,
\* issues at most one swap, for the token of that allocation, in an amount
\* computed from the target value and threshold of the Total Value taken at
\* the start and from the balance of the token when the iteration starts;
\* the call returns only after the iteration of the last allocation, one
\* iteration per allocation.
C25_OnePassInOrder ==
    [][/\ RebalanceStart
            => /\ frame'.i = 1 /\ frame'.legs = <<>>
               /\ frame'.totalValue
                     = TotalAssets(allocations', bal', priceFeeds', feedAnswer')
       /\ RebalanceIteration
            => /\ frame.i \in 1..Len(allocations)
               /\ allocations' = allocations
               /\ frame'.totalValue = frame.totalValue
               /\ Len(NewLegs) <= 1
               /\ NewLegs # <<>>
                    => \/ IsBuy(NewLegs[1], IterToken, IterTarget - IterCurrent)
                       \/ /\ IsSell(NewLegs[1], IterToken)
                          /\ NewLegs[1].amount
                                = SellAmount(IterToken, IterCurrent - IterTarget)
       /\ RebalanceEnd
            => /\ frame.i = Len(allocations) + 1
               /\ last'.steps = Len(allocations)
               /\ last'.legs = frame.legs]_vars

\* a rebalance pass is in progress whose first leg bought a token for less
\* than it paid at the oracle price, so that the Total Value is no more the
\* one taken at the start, and whose second leg bought the second token, not
\* held before, up to its target of the Total Value taken at the start
C25_Witness ==
    /\ frame # NoFrame /\ frame.op \in RebalanceOps
    /\ frame.i = 3 /\ Len(frame.legs) = 2
    /\ frame.legs[1].res = "executed" /\ frame.legs[1].from = ASSET
    /\ GetTokenValueInAsset(priceFeeds, feedAnswer, frame.legs[1].to, frame.legs[1].quote)
          < frame.legs[1].amount
    /\ frame.legs[2].res = "executed" /\ frame.legs[2].from = ASSET
    /\ frame.legs[2].amount = (frame.totalValue * allocations[2].percentage) \div 10000

\* C26: in an operation that returned, the token amount of every sell leg
\* (a rebalance sell, a liquidation, an emergency exit) is at most the
\* balance of the token when the leg is issued: the balance before the call
\* plus what the executed legs before it moved.
C26_SellWithinHolding ==
    [][(last'.op \in LoopOps /\ last'.ok)
          => \A k \in 1..Len(last'.legs) :
                last'.legs[k].from # ASSET
                   => last'.legs[k].amount
                         <= bal[last'.legs[k].from]
                              + LegsNet(SubSeq(last'.legs, 1, k - 1), last'.legs[k].from)]_vars

\* freeFunds(1000) has just sold the whole balance of the only token held,
\* the amount it computed for the shortfall being more than that balance
C26_Witness ==
    /\ last.op = "freeFunds" /\ last.ok
    /\ Len(last.legs) = 1 /\ Len(allocations) = 1
    /\ last.legs[1].res = "executed" /\ last.legs[1].from = allocations[1].token
    /\ bal = ZeroAll
    /\ last.sent >= 400 /\ last.sent < 1000
    /\ LET l == last.legs[1]
           onHand == last.sent - l.quote
           tokenValue == GetTokenValueInAsset(priceFeeds, feedAnswer, l.from, l.amount)
           liquidateValue == (tokenValue * (1000 - onHand)) \div (onHand + tokenValue)
       IN  ConvertAssetValueToTokenAmount(priceFeeds, feedAnswer, l.from, liquidateValue)
              > l.amount

\* the step is the return of a freeFunds that ran a liquidation
LiquidateEnd ==
    /\ frame # NoFrame /\ frame.op = "freeFunds"
    /\ frame' = NoFrame /\ last'.ok

\* the value of the balance of token t at the start of the pass in progress
StartValue(t) == GetTokenValueInAsset(priceFeeds, feedAnswer, t, frame.snap.bal[t])

\* the value of the token amount of a leg, and of one unit of its token
LegValue(l) == GetTokenValueInAsset(priceFeeds, feedAnswer, l.from, l.amount)
UnitValue(l) == GetTokenValueInAsset(priceFeeds, feedAnswer, l.from, 1)

Max(x, y) == IF x >= y THEN x ELSE y

\* C27: in an iteration of a liquidation for the shortfall n, begun with
\* Total Value T > 0, on a token other than the base asset whose balance
\* is worth h > 0, the leg issued sells min(amountOf(token, v), balance)
\* token units for v = h * n / T rounded down, and no leg is issued when
\* that amount is zero, nor for the base asset or a token not held; so,
\* when a liquidation for n <= T has sold two tokens, what it sold of them
\* is worth the same share of the value held of each, up to the roundings
\* (one base unit for v, and one token unit and one base unit for the
\* amount).
C27_ProportionalLiquidation ==
    [][/\ LiquidateIteration
            => LET n == frame.needed
                   T == frame.totalValue
                   h == IterCurrent
                   amount == SellAmount(IterToken, (h * n) \div T)
               IN  /\ T > 0
                   /\ IF IterToken # ASSET /\ bal[IterToken] > 0 /\ amount > 0
                      THEN /\ Len(NewLegs) = 1 /\ IsSell(NewLegs[1], IterToken)
                           /\ NewLegs[1].amount = amount
                      ELSE NewLegs = <<>>
       /\ (LiquidateEnd /\ Len(frame.legs) = 2 /\ frame.needed <= frame.totalValue
           /\ frame.legs[1].from # frame.legs[2].from)
            => LET l1 == frame.legs[1]
                   l2 == frame.legs[2]
                   h1 == StartValue(l1.from)
                   h2 == StartValue(l2.from)
                   d == LegValue(l1) * h2 - LegValue(l2) * h1
               IN  /\ d < Max((UnitValue(l2) + 2) * h1, 1)
                   /\ 0 - d < Max((UnitValue(l1) + 2) * h2, 1)]_vars

\* a liquidation is in progress that has sold part of each of two tokens,
\* WETH and TKB, held at its start in the proportion 60:40 to within one
\* unit of TKB
C27_Witness ==
    /\ frame # NoFrame /\ frame.op = "freeFunds"
    /\ Len(frame.legs) = 2
    /\ frame.legs[1].from = WETH /\ frame.legs[1].res = "executed"
    /\ frame.legs[2].from = TKB /\ frame.legs[2].res = "executed"
    /\ bal[WETH] > 0 /\ bal[TKB] > 0
    /\ 2 * StartValue(WETH) >= 3 * StartValue(TKB)
    /\ 2 * StartValue(WETH) <= 3 * (StartValue(TKB) + 15)

\* C28: a freeFunds(amount) that returns while the Target Portfolio is
\* empty or its Total Value is zero has issued no swap, has run no
\* iteration, has changed no balance but that of the base asset and no
\* allowance, and has sent the smaller of amount and the base asset on hand,
\* whatever it holds of other tokens.
C28_NothingToLiquidate ==
    [][(/\ FreeFundsReturned
        /\ \/ allocations = <<>>
           \/ TotalAssets(allocations, bal, priceFeeds, feedAnswer) = 0)
          => \A a \in TradeFreeAmounts :
                FreeFunds(vault, a)
                   => /\ last'.legs = <<>> /\ last'.steps = 0
                      /\ last'.sent = Min(a, bal[ASSET])
                      /\ bal' = [bal EXCEPT ![ASSET] = @ - last'.sent]
                      /\ allowance' = allowance]_vars

\* freeFunds has just returned having sent nothing and issued no swap
\* although TKB is held: the Target Portfolio is empty
C28_Witness ==
    /\ last.op = "freeFunds" /\ last.ok /\ last.legs = <<>> /\ last.sent = 0
    /\ allocations = <<>>
    /\ bal[TKB] > 0

AllLegsUnquoted(legs) ==
    legs # <<>> /\ \A k \in 1..Len(legs) : legs[k].res = "noquote"

\* C30: an operation whose legs all had their quote refused returns, has
\* run every iteration of its loop, and has changed no balance (but for the
\* base asset freeFunds sends from what was on hand) and no allowance of
\* the router; in any operation that returned, a leg without a quote moves
\* no balance, and the allowance of a token whose legs all went without a
\* quote is the one before the call; and while the exchange refuses to
\* quote, a call fails only for a price that cannot be used.
C30_UnquotedLegChangesNothing ==
    [][/\ (last'.op \in LoopOps /\ last'.ok /\ AllLegsUnquoted(last'.legs))
            => /\ bal' = [bal EXCEPT ![ASSET] = @ - last'.sent]
               /\ allowance' = allowance
               /\ last'.steps = Len(IF last'.op = "emergencyExitAllPositions"
                                    THEN allocations ELSE allocations')
       /\ (last'.op \in LoopOps /\ last'.ok)
            => \A t \in Tokens :
                  /\ bal'[t] = bal[t] + LegsNet(last'.legs, t)
                                 - (IF t = ASSET THEN last'.sent ELSE 0)
                  /\ (\A k \in 1..Len(last'.legs) :
                         last'.legs[k].from = t => last'.legs[k].res = "noquote")
                       => allowance'[t] = allowance[t]
       /\ (last'.op \in LoopOps /\ ~last'.ok /\ pool.how = "quote")
            => (last'.err = "valuation" /\ feedAnswer[FW] <= 0)]_vars

\* invest has just returned with the base asset still in hand: the one leg
\* of its pass, a buy, was refused a quote by the exchange
C30_Witness ==
    /\ last.op = "invest" /\ last.ok /\ AllLegsUnquoted(last.legs)
    /\ last.legs[1].from = ASSET
    /\ bal[ASSET] >= last.legs[1].amount
    /\ pool.how = "quote"
    /\ allowance = ZeroAll

AllLegsFailed(legs) ==
    legs # <<>> /\ \A k \in 1..Len(legs) : legs[k].res = "failed"

\* the last leg of the log that got a quote and sold token t failed to
\* execute
LastQuotedLegFailed(legs, t) ==
    \E k \in 1..Len(legs) :
        /\ legs[k].from = t /\ legs[k].res = "failed"
        /\ \A j \in (k + 1)..Len(legs) : legs[j].from = t => legs[j].res = "noquote"

\* C31: an operation whose legs all failed at the execution returns, has
\* run every iteration of its loop and has changed no balance (but for the
\* base asset freeFunds sends from what was on hand); in any operation that
\* returned, a leg that failed moves no balance and leaves the router an
\* allowance of zero on the token it was to sell; and invest, freeFunds and
\* emergencyExitAllPositions fail only for their caller or for a price that
\* cannot be used, whatever the exchange does.
C31_FailedExecutionResetsAllowance ==
    [][/\ (last'.op \in LoopOps /\ last'.ok /\ AllLegsFailed(last'.legs))
            => /\ bal' = [bal EXCEPT ![ASSET] = @ - last'.sent]
               /\ last'.steps = Len(IF last'.op = "emergencyExitAllPositions"
                                    THEN allocations ELSE allocations')
       /\ (last'.op \in LoopOps /\ last'.ok)
            => \A t \in Tokens :
                  /\ bal'[t] = bal[t] + LegsNet(last'.legs, t)
                                 - (IF t = ASSET THEN last'.sent ELSE 0)
                  /\ LastQuotedLegFailed(last'.legs, t) => allowance'[t] = 0
       /\ (last'.op \in {"invest", "freeFunds", "emergencyExitAllPositions"} /\ ~last'.ok)
            => \/ last'.err \in {NotOwner, NotVault}
               \/ /\ last'.err = "valuation"
                  /\ \E i \in 1..Len(allocations) :
                        allocations[i].token # ASSET /\ BadPrice(allocations[i].token)]_vars

\* setAllocations has just returned with the base asset still in hand and
\* no allowance left to the router: the exchange the owner had pointed the
\* strategy at failed to execute the one leg of the pass, a buy of TKB
C31_Witness ==
    /\ last.op = "setAllocations" /\ last.ok /\ AllLegsFailed(last.legs)
    /\ last.legs[1].from = ASSET /\ last.legs[1].to = TKB
    /\ bal[ASSET] >= last.legs[1].amount
    /\ router = ROUTER2
    /\ allowance = ZeroAll

\* the step is a call of _swapToken that issued a leg
LegIssued == last'.op = "swap" /\ last'.legs # <<>>

\* the route of the leg works and the router can pull its amount
LegCanExecute(l) ==
    /\ ~(pool.how = "exec" /\ pool.bad = (IF l.from = ASSET THEN l.to ELSE l.from))
    /\ bal[l.from] >= l.amount

\* C32: a leg that got a quote carries the last element of the quote of the
\* exchange for its route, and its minimum output is that quote times 9500
\* / 10000, rounded down: when it executes, the balance of the destination
\* token grows by at least that minimum and that of the source token falls
\* by the amount; when the execution would pay less it fails and no
\* balance moves; and, the route working and the amount being held, it
\* executes exactly when the exchange pays at least the minimum.
C32_MinimumOutput ==
    [][LegIssued
          => LET l == last'.legs[1]
                 amountOutMin == (l.quote * 9500) \div 10000
             IN  /\ l.res # "noquote"
                      => l.quote = GetAmountsOut(pool, feedAnswer, l.from, l.to, l.amount)
                 /\ l.res = "executed"
                      => /\ bal'[l.to] - bal[l.to] >= amountOutMin
                         /\ bal'[l.from] = bal[l.from] - l.amount
                 /\ l.res # "executed" => bal' = bal
                 /\ (l.res # "noquote" /\ LegCanExecute(l))
                      => (l.res = "executed"
                            <=> (l.quote * (10000 - pool.slip)) \div 10000 >= amountOutMin)]_vars

\* a leg has just executed on an exchange that paid 5% less than it had
\* quoted, the least the minimum output lets through
C32_Witness ==
    /\ last.op = "swap" /\ last.legs # <<>>
    /\ last.legs[1].res = "executed" /\ last.legs[1].quote >= 100
    /\ pool.slip = 500
    /\ bal[last.legs[1].to] > 0

\* C33: a call of _swapToken with the same token on both sides, or with a
\* zero amount, issues no leg (the exchange is asked for no quote) and
\* changes no balance and no allowance; every other call issues one leg,
\* for the tokens and the amount of the call.
C33_DegenerateSwapNoEffect ==
    [][last'.op = "swap"
          => IF last'.from = last'.to \/ last'.amount = 0
             THEN last'.legs = <<>> /\ bal' = bal /\ allowance' = allowance
             ELSE /\ Len(last'.legs) = 1
                  /\ last'.legs[1].from = last'.from
                  /\ last'.legs[1].to = last'.to
                  /\ last'.legs[1].amount = last'.amount]_vars

\* C33, in a pass: the iteration of a rebalance pass for an allocation of
\* the base asset issues no leg and changes no balance and no allowance,
\* and no leg of any pass has the same token on both sides or a zero
\* amount.
C33_BaseAllocationNeverSwaps ==
    [][/\ (RebalanceIteration /\ IterToken = ASSET)
            => (NewLegs = <<>> /\ bal' = bal /\ allowance' = allowance)
       /\ (frame' # NoFrame /\ frame # frame')
            => \A k \in 1..Len(frame'.legs) :
                  frame'.legs[k].from # frame'.legs[k].to /\ frame'.legs[k].amount > 0]_vars

\* _swapToken has just returned from a call to swap base asset, of which
\* 1000 are held, for base asset, on an exchange in working order: nothing
\* has moved
C33_Witness ==
    /\ last.op = "swap" /\ last.from = ASSET /\ last.to = ASSET /\ last.amount > 0
    /\ last.legs = <<>>
    /\ bal[ASSET] = 1000 /\ allowance = ZeroAll
    /\ pool.how = "none"

\* C34: after a setAllocations that returned no token appears more than
\* once in the Target Portfolio, and the pass it ran has issued at most one
\* leg for each token.
C34_NoTokenTwice ==
    [][SetAllocationsReturned
          => /\ NoDuplicateTokens(allocations')
             /\ \A j, k \in 1..Len(last'.legs) :
                   (j # k /\ last'.legs[j].from = ASSET /\ last'.legs[k].from = ASSET)
                      => last'.legs[j].to # last'.legs[k].to]_vars

\* C35: in every state every token of the Target Portfolio is a member of
\* the Allowed Token Set.
C35_AllocatedTokensAllowed ==
    \A i \in 1..Len(allocations) : allocations[i].token \in allowedTokens

\* C36: every buy leg issued by an iteration of a rebalance pass is for an
\* amount of base asset that is at most the base asset held when the
\* iteration starts.
C36_BuyWithinBaseAsset ==
    [][(RebalanceIteration /\ NewLegs # <<>> /\ NewLegs[1].from = ASSET)
          => NewLegs[1].amount <= bal[ASSET]]_vars

\* C37: at unchanged oracle prices, a leg that executes gives up at most 5%
\* of the oracle value of the amount it swaps: the oracle value of what the
\* destination balance gained is, up to the rounding of the output (one
\* unit of the destination token and one base unit for each of the two
\* valuations), at least 95% of the oracle value of the amount swapped.
C37_ExecutedLegLosesAtMostFivePercent ==
    [][(LegIssued /\ last'.legs[1].res = "executed")
          => LET l == last'.legs[1]
                 vIn == GetTokenValueInAsset(priceFeeds, feedAnswer, l.from, l.amount)
                 vOut == GetTokenValueInAsset(priceFeeds, feedAnswer, l.to,
                                              bal'[l.to] - bal[l.to])
                 unit == GetTokenValueInAsset(priceFeeds, feedAnswer, l.to, 1)
             IN  vIn - vOut <= (vIn * MAX_SLIPPAGE) \div MAX_BPS + unit + 2]_vars

\* C38: whenever no operation of the strategy is in progress, whether the
\* last one returned or reverted, the exchange has an allowance of zero on
\* every token.
C38_NoAllowanceAtRest ==
    frame = NoFrame => \A t \in Tokens : allowance[t] = 0

\* emergencyExitAllPositions has returned with TKB still held: the owner had
\* bought it on one exchange and then pointed the strategy at another, on
\* which the sale was approved and failed
C38_Witness ==
    /\ frame = NoFrame
    /\ last.op = "emergencyExitAllPositions" /\ last.ok
    /\ \E k \in 1..Len(last.legs) :
          last.legs[k].from = TKB /\ last.legs[k].res = "failed"
    /\ router = ROUTER2
    /\ bal[TKB] > 0
    /\ \A t \in Tokens : allowance[t] = 0

\* C39: freeFunds(n) by the vault with 0 < n <= base asset held returns,
\* sends exactly n, runs no iteration of the liquidation and issues no
\* swap, and takes n off the base-asset balance, nothing else, whatever the
\* price feeds of the tokens of the Target Portfolio are.
C39_OnHandNeedsNoPrice ==
    [][last'.op = "freeFunds"
          => \A n \in FreeInputs :
                (FreeFunds(vault, n) /\ 0 < n /\ n <= bal[ASSET])
                   => /\ last'.ok
                      /\ last'.sent = n
                      /\ last'.legs = <<>> /\ last'.steps = 0
                      /\ bal' = [bal EXCEPT ![ASSET] = @ - n]
                      /\ allowance' = allowance]_vars

\* freeFunds has just sent base asset that was on hand although a token of
\* the Target Portfolio is held whose price cannot be used
C39_Witness ==
    /\ last.op = "freeFunds" /\ last.ok /\ last.sent > 0
    /\ last.legs = <<>>
    /\ HasUnvaluable(allocations, bal)

\* C40: a Vault.withdraw(a) either returns, and then the receiver has got
\* exactly a, the Vault has paid it out of its idle base asset and of what
\* the strategy sent, and the shares that a is worth at the Total Value of
\* the moment (rounded up) are burned from the owner and from the supply;
\* or it fails, and then the accounts of the Vault and the balances and
\* allowances of the strategy are as before.
C40_WithdrawAllOrNothing ==
    [][last'.op = "withdraw"
          => \A a \in WithdrawInputs :
                VaultWithdraw(a)
                   => IF last'.ok
                      THEN LET total == vaultAcct'.idle + a
                                          + TotalAssets(allocations, bal', priceFeeds, feedAnswer)
                               k == CeilDiv(a * (vaultAcct.supply + 1), total + 1)
                           IN  /\ vaultAcct'.paid = vaultAcct.paid + a
                               /\ vaultAcct'.idle = vaultAcct.idle + last'.sent - a
                               /\ vaultAcct'.shares = vaultAcct.shares - k
                               /\ vaultAcct'.supply = vaultAcct.supply - k
                               /\ \A t \in Tokens :
                                     bal'[t] = bal[t] + LegsNet(last'.legs, t)
                                                 - (IF t = ASSET THEN last'.sent ELSE 0)
                      ELSE /\ vaultAcct' = vaultAcct
                           /\ bal' = bal /\ allowance' = allowance]_vars

\* a withdrawal has just failed at the transfer to the receiver: the Vault
\* asked the strategy, which holds TKB, for its shortfall and got less
C40_Witness ==
    /\ last = Failed("withdraw", InsufficientBalance)
    /\ vaultAcct.shares > 0 /\ vaultAcct.paid = 0
    /\ bal[TKB] > 0

====
